---- MODULE Spec2Model ----
(***************************************************************************)
(* Model of the multi-facility logger of github.com/alrusov/log (log.go).  *)
(*                                                                         *)
(* State: the package-level variables of log.go (facility registry, alert  *)
(* subscribers, ring buffer, pre-open buffer, file handle, buffered writer,*)
(* day stamp, flags), the file system as far as the logger writes to it,   *)
(* the console sink, the global mutex, and for every caller thread its     *)
(* position (pc) and its locals (frame).                                   *)
(*                                                                         *)
(* A formatted line is a record of the parts logger() prints; the time of  *)
(* day is a logical clock that advances with every formatted line.  bufio  *)
(* is modelled with a line as the unit of size.  maxLen truncation and the *)
(* redaction hook are not modelled (maxLen = 0, replace = nil).            *)
(***************************************************************************)
EXTENDS Integers, Sequences, FiniteSets, TLC

(***************************************************************************)
(* Bounds of the model.                                                    *)
(***************************************************************************)
\* lines formatted in a run of Spec
MaxEmit == 3
\* alert subscriptions handed out in a run
MaxSubscribers == 2
\* lines formatted beyond the pre-open capacity in a run of SpecLong
LongSlack == 3

\* caller threads
Threads == {"t1", "t2"}
\* facility names callers use; "" is the standard facility
Names == {"", "net"}
\* calendar days, as now().Format(misc.DateFormatRev) prints them
DateStr == <<"2026-01-01", "2026-01-02">>

(***************************************************************************)
(* Level table (log.go 27-56, 101-116).                                    *)
(***************************************************************************)
EMERG == 0
ALERT == 1
CRIT == 2
ERR == 3
WARNING == 4
NOTICE == 5
INFO == 6
TIME == 7
DEBUG == 8
TRACE1 == 9
TRACE2 == 10
TRACE3 == 11
TRACE4 == 12
UNKNOWN == 13

levels ==
  << [code |-> EMERG,   name |-> "EMERG",   shortName |-> "EM"],
     [code |-> ALERT,   name |-> "ALERT",   shortName |-> "AL"],
     [code |-> CRIT,    name |-> "CRIT",    shortName |-> "CR"],
     [code |-> ERR,     name |-> "ERR",     shortName |-> "ER"],
     [code |-> WARNING, name |-> "WARNING", shortName |-> "WA"],
     [code |-> NOTICE,  name |-> "NOTICE",  shortName |-> "NO"],
     [code |-> INFO,    name |-> "INFO",    shortName |-> "IN"],
     [code |-> TIME,    name |-> "TIME",    shortName |-> "TM"],
     [code |-> DEBUG,   name |-> "DEBUG",   shortName |-> "DE"],
     [code |-> TRACE1,  name |-> "TRACE1",  shortName |-> "T1"],
     [code |-> TRACE2,  name |-> "TRACE2",  shortName |-> "T2"],
     [code |-> TRACE3,  name |-> "TRACE3",  shortName |-> "T3"],
     [code |-> TRACE4,  name |-> "TRACE4",  shortName |-> "T4"],
     [code |-> UNKNOWN, name |-> "UNKNOWN", shortName |-> "??"] >>

\* levels[level] of the Go slice, which is indexed from 0
LevelDef(level) == levels[level + 1]

beforeFileBufSize == 500
lastBufSize == 10

StdFacilityName == ""

logFuncNameNone == 0
logFuncNameShort == 1
logFuncNameFull == 2

FuncNameModeNone == "none"
FuncNameModeShort == "short"
FuncNameModeFull == "full"

(***************************************************************************)
(* Values standing for Go's nil, "" and the strings of the file names.     *)
(***************************************************************************)
Nil == [nil |-> TRUE]
NoDate == ""
PatternUnset == ""
PatternBufferOnly == "-"
PatternFile == "logs/%s.log"
EOS == "\n"
Free == ""
\* stdFacility (log.go 168): the object init() allocates first
stdFacility == 1

\* Str2Level that matches the long names only
Str2LevelLongOnly(levelName) ==
  LET hits == {i \in 1..Len(levels) : levelName = levels[i].name}
  IN  IF hits = {}
        THEN [level |-> UNKNOWN, ok |-> FALSE]
        ELSE [level |-> levels[CHOOSE i \in hits : \A j \in hits : i <= j].code,
              ok |-> TRUE]

\* Str2Level that reports success for a name it does not find
Str2LevelLenient(levelName) ==
  LET hits == {i \in 1..Len(levels) :
                 levelName = levels[i].name \/ levelName = levels[i].shortName}
  IN  IF hits = {}
        THEN [level |-> UNKNOWN, ok |-> TRUE]
        ELSE [level |-> levels[CHOOSE i \in hits : \A j \in hits : i <= j].code,
              ok |-> TRUE]

\* Str2Level (log.go 329-342): the first table row whose long or short
\* name is levelName, else (UNKNOWN, false)
Str2Level(levelName) ==
  LET hits == {i \in 1..Len(levels) :
                 levelName = levels[i].name \/ levelName = levels[i].shortName}
  IN  IF hits = {}
        THEN [level |-> UNKNOWN, ok |-> FALSE]
        ELSE [level |-> levels[CHOOSE i \in hits : \A j \in hits : i <= j].code,
              ok |-> TRUE]

\* GetLogLevelName (log.go 357-360)
GetLogLevelName(level) ==
  [short |-> LevelDef(level).shortName, long |-> LevelDef(level).name]

\* the level name logger prints (log.go 524-529)
LevelName(level) ==
  IF level >= EMERG /\ level < UNKNOWN
    THEN LevelDef(level).shortName
    ELSE "?" \o ToString(level) \o "?"

\* the caller tag logger prints (log.go 535-542): which form of the function
\* name is shown
FuncNameTag(level, mode) ==
  IF level = EMERG \/ mode = logFuncNameFull THEN "full"
  ELSE IF mode = logFuncNameShort THEN "short"
  ELSE "none"

\* the facility tag logger prints (log.go 544-546)
FacilityTag(facility) ==
  IF facility # "" THEN " <" \o facility \o ">" ELSE facility

\* the text logger builds (log.go 548-558)
Format(level, dt, tm, facility, mode, message) ==
  [kind |-> "line", lvl |-> LevelName(level), dt |-> dt, tm |-> tm,
   fac |-> FacilityTag(facility), fn |-> FuncNameTag(level, mode),
   msg |-> message, eos |-> EOS]

\* the "..." entry logger appends to a full pre-open buffer (log.go 567)
Marker == [kind |-> "...", eos |-> ""]

\* the launch line openLogFile builds (log.go 473-487)
Banner(dt, tm) ==
  [kind |-> "launch", lvl |-> LevelDef(INFO).shortName, dt |-> dt, tm |-> tm,
   eos |-> EOS]

\* strings.TrimSpace on a stored line: the end-of-line marker goes
TrimSpace(s) == [s EXCEPT !.eos = ""]

\* the messages setLogLevel formats (log.go 780, 792)
InvalidLevelMsg(levelName, oldLevel) ==
  "Invalid log level \"" \o levelName \o "\", left unchanged \""
     \o LevelDef(oldLevel).name \o "\" "
LevelIsMsg(newLevel) == "Log level is \"" \o LevelDef(newLevel).name \o "\""

VARIABLES
  objs,               \* the Facility objects allocated so far: [name, level]
  facilities,         \* registry: name -> index of its object in objs
  alertSubscriberID,  \* last subscription id handed out
  alertSubscribers,   \* ids of the registered alert callbacks
  enabled, active, firstTime,
  beforeFileBuf,      \* pre-open buffer
  lastBuf,            \* ring buffer
  logFuncName,        \* process-wide caller-tag mode
  lastWriteDate,      \* day stamp of the last file write
  fileNamePattern, fileWriterBufSize,
  file,               \* Nil or the open handle [dt, closed]
  fileWriter,         \* Nil or the bufio.Writer on file: [buf, size]
  files,              \* file system: date of the file name -> lines in it
  dump,               \* crash-dump file: [exists, lines]
  console,            \* lines written to the console sink
  mutex,              \* Free or the thread holding the global mutex
  pc, frame,          \* per thread: position and locals of the current call
  today,              \* index in DateStr of the current day
  clock,              \* lines formatted so far (the time of day of a line)
  exited              \* exit has been called

vars == <<objs, facilities, alertSubscriberID, alertSubscribers, enabled,
          active, firstTime, beforeFileBuf, lastBuf, logFuncName,
          lastWriteDate, fileNamePattern, fileWriterBufSize, file,
          fileWriter, files, dump, console, mutex, pc, frame, today, clock,
          exited>>

(***************************************************************************)
(* The logger's own part of the state as one record, so that the helpers   *)
(* of logger() are operators from state to state.                          *)
(***************************************************************************)
LogState ==
  [file |-> file, fileWriter |-> fileWriter, files |-> files,
   beforeFileBuf |-> beforeFileBuf, dump |-> dump, firstTime |-> firstTime,
   console |-> console, lastWriteDate |-> lastWriteDate, lastBuf |-> lastBuf]

\* (*os.File).Write: appends to the file of the handle; on a closed handle
\* it fails and the error is dropped
FileWrite(S, s) ==
  IF S.file.closed THEN S
  ELSE [S EXCEPT !.files[S.file.dt] = Append(@, s)]

\* (*bufio.Writer).Flush: the buffered lines go to the file of the handle
BufFlush(S) ==
  IF S.file.closed THEN S
  ELSE [S EXCEPT !.files[S.file.dt] = @ \o S.fileWriter.buf,
                 !.fileWriter.buf = <<>>]

\* (*bufio.Writer).Write: a line that finds the buffer full flushes it first
BufWrite(S, s) ==
  LET F == IF Len(S.fileWriter.buf) >= S.fileWriter.size THEN BufFlush(S)
           ELSE S
  IN  [F EXCEPT !.fileWriter.buf = Append(@, s)]

\* writeToConsole (log.go 411-415)
writeToConsole(S, msg) == [S EXCEPT !.console = Append(@, msg)]

\* write (log.go 417-427)
write(S, s) ==
  IF S.file # Nil
    THEN IF S.fileWriter # Nil THEN BufWrite(S, s) ELSE FileWrite(S, s)
    ELSE S

\* the loop "for _, s := range beforeFileBuf { write(s) }" (log.go 497-499)
RECURSIVE writeEach(_, _)
writeEach(S, lines) ==
  IF lines = <<>> THEN S
  ELSE writeEach(write(S, Head(lines)), Tail(lines))

\* drain that leaves the lines in the pre-open buffer
drainKeep(S) ==
  IF Len(S.beforeFileBuf) > 0 THEN writeEach(S, S.beforeFileBuf) ELSE S

\* the pre-open buffer goes to the opened file (log.go 496-501)
drain(S) ==
  IF Len(S.beforeFileBuf) > 0
    THEN [writeEach(S, S.beforeFileBuf) EXCEPT !.beforeFileBuf = <<>>]
    ELSE S

\* the start of openLogFile (log.go 431-440): the writer is flushed and
\* dropped, the handle closed and dropped
openLogFileClose(S) ==
  IF S.file # Nil
    THEN [(IF S.fileWriter # Nil THEN BufFlush(S) ELSE S)
            EXCEPT !.fileWriter = Nil, !.file = Nil]
    ELSE S

\* the rest of openLogFile (log.go 442-510) in the state S1 its start has
\* left; opened is the outcome of os.OpenFile
openLogFileOpen(S1, dt, tm, opened) ==
  LET \* 446-447
      S2 == [S1 EXCEPT !.file = IF opened THEN [dt |-> dt, closed |-> FALSE]
                                ELSE Nil]
      msg == Banner(dt, tm)
      \* 489-504
      S3 == IF S2.file # Nil
              THEN LET A == IF fileWriterBufSize > 0
                              THEN [S2 EXCEPT !.fileWriter =
                                      [buf |-> <<>>, size |-> fileWriterBufSize]]
                              ELSE S2
                       B == drain(write(A, msg))
                   IN  [B EXCEPT !.dump = [exists |-> FALSE, lines |-> <<>>]]
              ELSE S2
  \* 506-509
  IN  IF S3.firstTime
        THEN writeToConsole([S3 EXCEPT !.firstTime = FALSE], msg)
        ELSE S3

\* openLogFile (log.go 429-510); opened is the outcome of os.OpenFile
openLogFile(S, dt, tm, opened) ==
  openLogFileOpen(openLogFileClose(S), dt, tm, opened)

\* appendBeforeFile that goes on appending at and beyond the capacity
appendBeforeFileNoCap(buf, text) ==
  IF Len(buf) < beforeFileBufSize THEN Append(buf, text)
  ELSE Append(buf, Marker)

\* appendBeforeFile that stores the line that finds the buffer full
appendBeforeFileNoMarker(buf, text) ==
  IF Len(buf) > beforeFileBufSize THEN buf ELSE Append(buf, text)

\* the pre-open branch of logger (log.go 562-568)
appendBeforeFile(buf, text) ==
  LET ln == Len(buf)
  IN  IF ln > beforeFileBufSize THEN buf
      ELSE IF ln < beforeFileBufSize THEN Append(buf, text)
      ELSE Append(buf, Marker)

\* appendLast that drops the newest line of a full ring buffer
appendLastDropNewest(buf, text) ==
  Append(IF Len(buf) >= lastBufSize THEN SubSeq(buf, 1, Len(buf) - 1) ELSE buf,
         text)

\* the ring buffer append of logger (log.go 583-586)
appendLast(buf, text) ==
  Append(IF Len(buf) >= lastBufSize THEN Tail(buf) ELSE buf, text)

\* recordLine that mirrors a line only while a log file is open
recordLineIfFile(S, text) ==
  IF S.file = Nil THEN S
  ELSE writeToConsole([S EXCEPT !.lastBuf = appendLast(@, text)], text)

\* the end of logger (log.go 583-588): the line goes to the ring buffer and
\* to the console
recordLine(S, text) ==
  writeToConsole([S EXCEPT !.lastBuf = appendLast(@, text)], text)

\* NeedsOpen that never reopens an open file
NeedsOpenNoFileOnly(S, dt) == S.file = Nil

\* the test of logger before openLogFile (log.go 570)
NeedsOpen(S, dt) == S.file = Nil \/ S.lastWriteDate # dt

\* afterOpen that stamps the day also when no file is open
afterOpenKeepStamp(O, text, dt) ==
  IF O.file # Nil
    THEN [write(O, text) EXCEPT !.lastWriteDate = dt]
    ELSE [O EXCEPT !.lastWriteDate = dt]

\* afterOpen that writes the line and leaves the day stamp as it is
afterOpenNoStamp(O, text, dt) ==
  IF O.file # Nil
    THEN write(O, text)
    ELSE [O EXCEPT !.lastWriteDate = NoDate]

\* logger after openLogFile (log.go 574-579): the line is written and the
\* day stamped, or with no file open the day stamp is reset
afterOpen(O, text, dt) ==
  IF O.file # Nil
    THEN [write(O, text) EXCEPT !.lastWriteDate = dt]
    ELSE [O EXCEPT !.lastWriteDate = NoDate]

\* the branches of logger on the file destination (log.go 561-580): the
\* line goes to the pre-open buffer, to the file, or to neither
toDestination(S, text, dt, tm, opened) ==
  IF fileNamePattern = PatternUnset
    THEN [S EXCEPT !.beforeFileBuf = appendBeforeFile(@, text)]
  ELSE IF fileNamePattern # PatternBufferOnly
    THEN LET O == IF NeedsOpen(S, dt) THEN openLogFile(S, dt, tm, opened)
                  ELSE S
         IN  afterOpen(O, text, dt)
  ELSE S

\* persistLine that goes on after logging was marked inactive
persistLineAlways(S, text, dt, tm, opened) ==
  toDestination(S, text, dt, tm, opened)

\* "if active { ... }" of logger (log.go 560-581)
persistLine(S, text, dt, tm, opened) ==
  IF active THEN toDestination(S, text, dt, tm, opened) ELSE S

\* logger after its enabled test and locking (log.go 524-589): the state
\* after formatting and storing one line; opened is the outcome of
\* os.OpenFile should the line open a file
loggerRun(S, mode, facility, level, message, opened) ==
  LET dt == DateStr[today]
      tm == clock + 1
      text == Format(level, dt, tm, facility, mode, message)
  IN  recordLine(persistLine(S, text, dt, tm, opened), text)

\* the variables of LogState take the values of S, and one more line has
\* been formatted
StoreLogState(S) ==
  /\ file' = S.file
  /\ fileWriter' = S.fileWriter
  /\ files' = S.files
  /\ beforeFileBuf' = S.beforeFileBuf
  /\ dump' = S.dump
  /\ firstTime' = S.firstTime
  /\ console' = S.console
  /\ lastWriteDate' = S.lastWriteDate
  /\ lastBuf' = S.lastBuf

logVars == <<file, fileWriter, files, beforeFileBuf, dump, firstTime,
             console, lastWriteDate, lastBuf>>

\* GetLastLog (log.go 306-316), the value it returns
GetLastLog == [i \in 1..Len(lastBuf) |-> TrimSpace(lastBuf[i])]

(***************************************************************************)
(* Threads.  frame[t] holds the arguments, locals and results of the call  *)
(* thread t is in or has last completed; stack is the labels the nested    *)
(* calls return to.                                                        *)
(***************************************************************************)
Frame0 ==
  [op |-> "", stack |-> <<>>, f |-> 0, name |-> "", L |-> 0, level |-> 0,
   T |-> 0, message |-> "", levelName |-> "", funcNameMode |-> "",
   oldLevel |-> 0, newLevel |-> 0, err |-> FALSE, pending |-> {},
   subscribers |-> {}, alerts |-> <<>>, passed |-> FALSE,
   sawEnabled |-> FALSE, logged |-> <<>>,
   defaultLevelName |-> "", overrides |-> [n \in {} |-> ""], todo |-> {},
   visited |-> <<>>, levels0 |-> <<>>, short |-> "", long |-> "",
   cronErr |-> [isNil |-> TRUE, text |-> <<>>], msg |-> <<>>,
   keysAndValues |-> <<>>, kv0 |-> <<>>, out |-> <<>>, kvFmt |-> <<>>,
   result |-> <<>>,
   lastFlushDate |-> "", dt |-> "", sawWriter |-> FALSE, list |-> <<>>,
   id |-> 0,
   saved |-> [f |-> 0, name |-> "", L |-> 0, level |-> 0, T |-> 0,
              passed |-> FALSE, message |-> ""],
   loggerLocals |-> [text |-> Nil, dt |-> "", tm |-> 0, active |-> FALSE]]

\* a call returns: to the label on top of the stack, or to the caller of
\* the package, who has the results at "done"
Return(t, fr) ==
  IF fr.stack = <<>>
    THEN /\ pc' = [pc EXCEPT ![t] = "done"]
         /\ frame' = [frame EXCEPT ![t] = fr]
    ELSE /\ pc' = [pc EXCEPT ![t] = Head(fr.stack)]
         /\ frame' = [frame EXCEPT ![t] = [fr EXCEPT !.stack = Tail(@)]]

Goto(t, label, fr) ==
  /\ pc' = [pc EXCEPT ![t] = label]
  /\ frame' = [frame EXCEPT ![t] = fr]

\* the package state init() leaves (log.go 164-178, 118-160)
InitPackage ==
  /\ objs = <<[name |-> StdFacilityName, level |-> DEBUG]>>
  /\ facilities = [n \in {StdFacilityName} |-> stdFacility]
  /\ alertSubscriberID = 0
  /\ alertSubscribers = {}
  /\ enabled = TRUE
  /\ active = TRUE
  /\ firstTime = TRUE
  /\ beforeFileBuf = <<>>
  /\ lastBuf = <<>>
  /\ logFuncName = logFuncNameNone
  /\ lastWriteDate = NoDate
  /\ fileNamePattern = PatternUnset
  /\ fileWriterBufSize = 0
  /\ file = Nil
  /\ fileWriter = Nil
  /\ files = [d \in {DateStr[i] : i \in 1..Len(DateStr)} |-> <<>>]
  /\ dump = [exists |-> FALSE, lines |-> <<>>]
  /\ console = <<>>
  /\ mutex = Free
  /\ today = 1
  /\ clock = 0
  /\ exited = FALSE

\* after init() no thread is in a call
Init ==
  /\ InitPackage
  /\ pc = [t \in Threads |-> "idle"]
  /\ frame = [t \in Threads |-> Frame0]

cfgVars == <<fileNamePattern, fileWriterBufSize>>
regVars == <<objs, facilities>>
subVars == <<alertSubscriberID, alertSubscribers>>

\* the caller takes the results of a completed call and goes on
Done(t) ==
  /\ pc[t] = "done"
  /\ Goto(t, "idle", Frame0)
  /\ UNCHANGED <<regVars, subVars, enabled, active, logFuncName, cfgVars,
                 logVars, mutex, today, clock, exited>>

(***************************************************************************)
(* Emitting a message.                                                     *)
(***************************************************************************)
\* Facility.Message (log.go 809-811) on the facility registered as n
Message(t, n, L) ==
  /\ pc[t] = "idle"
  /\ n \in DOMAIN facilities
  /\ Goto(t, "MessageEx",
          [Frame0 EXCEPT !.op = "Message", !.f = facilities[n], !.L = L,
                         !.message = "hello"])
  /\ UNCHANGED <<regVars, subVars, enabled, active, logFuncName, cfgVars,
                 logVars, mutex, today, clock, exited>>

\* FilterLevel with the test on the absolute value of the level
FilterLevelAbs(level, fLevel) ==
  LET a == IF level < 0 THEN -level ELSE level
  IN  [passed |-> a <= fLevel, level |-> a]

\* the level test of Facility.MessageEx (log.go 800-803): the level the
\* message is logged at, or nothing when it is filtered out
FilterLevel(level, fLevel) ==
  IF level <= fLevel
    THEN [passed |-> TRUE, level |-> IF level < 0 THEN -level ELSE level]
    ELSE [passed |-> FALSE, level |-> level]

\* Facility.MessageEx (log.go 799-806) up to its call of logger
MessageEx(t) ==
  /\ pc[t] = "MessageEx"
  /\ LET fr == frame[t]
         T == objs[fr.f].level
         r == FilterLevel(fr.L, T)
         fr1 == [fr EXCEPT !.T = T, !.passed = r.passed, !.level = r.level,
                           !.name = objs[fr.f].name]
     IN  IF r.passed THEN Goto(t, "logger", fr1) ELSE Return(t, fr1)
  /\ UNCHANGED <<regVars, subVars, enabled, active, logFuncName, cfgVars,
                 logVars, mutex, today, clock, exited>>

\* logger that goes on while logging is disabled
loggerAlways(t) ==
  /\ pc[t] = "logger"
  /\ Goto(t, "loggerLocked", [frame[t] EXCEPT !.sawEnabled = enabled])
  /\ UNCHANGED <<regVars, subVars, enabled, active, logFuncName, cfgVars,
                 logVars, mutex, today, clock, exited>>

\* logger(true, ...), its test of enabled (log.go 515-517)
logger(t) ==
  /\ pc[t] = "logger"
  /\ LET fr == [frame[t] EXCEPT !.sawEnabled = enabled]
     IN  IF ~enabled THEN Return(t, fr) ELSE Goto(t, "loggerLocked", fr)
  /\ UNCHANGED <<regVars, subVars, enabled, active, logFuncName, cfgVars,
                 logVars, mutex, today, clock, exited>>

\* the lines a call has put into the ring buffer, after a logger call that
\* turned the ring buffer into S.lastBuf
Logged(fr, S) ==
  IF S.lastBuf = lastBuf THEN fr.logged
  ELSE Append(fr.logged, S.lastBuf[Len(S.lastBuf)])

\* logger(true, ...) from mutex.Lock() to the deferred mutex.Unlock()
\* (log.go 519-589)
loggerLocked(t) ==
  /\ pc[t] = "loggerLocked"
  /\ mutex = Free
  /\ \E opened \in BOOLEAN :
       LET fr == frame[t]
           S == loggerRun(LogState, logFuncName, fr.name, fr.level,
                          fr.message, opened)
       IN  /\ StoreLogState(S)
           /\ Return(t, [fr EXCEPT !.logged = Logged(fr, S)])
  /\ clock' = clock + 1
  /\ UNCHANGED <<regVars, subVars, enabled, active, logFuncName, cfgVars,
                 mutex, today, exited>>

\* logger(false, ...) as setLogLevel calls it with the mutex held
\* (log.go 514-589): the logger state after it; mode is the caller-tag mode
\* setLogLevel has set before
loggerNoLock(mode, facility, level, message, opened) ==
  IF ~enabled THEN LogState
  ELSE loggerRun(LogState, mode, facility, level, message, opened)

(***************************************************************************)
(* Facility registry.                                                      *)
(***************************************************************************)
\* NewLevel that gives every new facility the fixed default
NewLevelFixed(name) == DEBUG

\* the level NewFacility gives a new facility (log.go 712-715)
NewLevel(name) ==
  IF name # StdFacilityName THEN objs[stdFacility].level ELSE DEBUG

\* a caller calls NewFacility(n)
CallNewFacility(t, n) ==
  /\ pc[t] = "idle"
  /\ Goto(t, "NewFacility", [Frame0 EXCEPT !.op = "NewFacility", !.name = n])
  /\ UNCHANGED <<regVars, subVars, enabled, active, logFuncName, cfgVars,
                 logVars, mutex, today, clock, exited>>

\* NewFacility that goes on without the mutex
NewFacilityLockSkipped(t) ==
  /\ pc[t] = "NewFacility"
  /\ Goto(t, "NewFacilityLookup", frame[t])
  /\ UNCHANGED <<regVars, subVars, enabled, active, logFuncName, cfgVars,
                 logVars, mutex, today, clock, exited>>

\* mutex.Lock() of NewFacility (log.go 704)
NewFacilityLock(t) ==
  /\ pc[t] = "NewFacility"
  /\ mutex = Free
  /\ mutex' = t
  /\ Goto(t, "NewFacilityLookup", frame[t])
  /\ UNCHANGED <<regVars, subVars, enabled, active, logFuncName, cfgVars,
                 logVars, today, clock, exited>>

\* the lookup of NewFacility (log.go 707-710): a registered facility is
\* returned, and the deferred mutex.Unlock() runs
NewFacilityLookup(t) ==
  /\ pc[t] = "NewFacilityLookup"
  /\ LET fr == frame[t]
     IN  IF fr.name \in DOMAIN facilities
           THEN /\ mutex' = Free
                /\ Return(t, [fr EXCEPT !.f = facilities[fr.name]])
           ELSE /\ UNCHANGED mutex
                /\ Goto(t, "NewFacilityCreate", fr)
  /\ UNCHANGED <<regVars, subVars, enabled, active, logFuncName, cfgVars,
                 logVars, today, clock, exited>>

\* the rest of NewFacility (log.go 712-723): the facility is allocated and
\* registered, and the deferred mutex.Unlock() runs
NewFacilityCreate(t) ==
  /\ pc[t] = "NewFacilityCreate"
  /\ LET fr == frame[t]
     IN  /\ objs' = Append(objs, [name |-> fr.name,
                                  level |-> NewLevel(fr.name)])
         /\ facilities' = [n \in DOMAIN facilities \cup {fr.name} |->
                             IF n = fr.name THEN Len(objs) + 1
                             ELSE facilities[n]]
         /\ Return(t, [fr EXCEPT !.f = Len(objs) + 1])
  /\ mutex' = Free
  /\ UNCHANGED <<subVars, enabled, active, logFuncName, cfgVars, logVars,
                 today, clock, exited>>

\* NewFacility (log.go 703-724), step by step
NewFacility(t) ==
  \/ NewFacilityLock(t)
  \/ NewFacilityLookup(t)
  \/ NewFacilityCreate(t)

\* a caller calls GetFacility(n)
CallGetFacility(t, n) ==
  /\ pc[t] = "idle"
  /\ Goto(t, "GetFacility", [Frame0 EXCEPT !.op = "GetFacility", !.name = n])
  /\ UNCHANGED <<regVars, subVars, enabled, active, logFuncName, cfgVars,
                 logVars, mutex, today, clock, exited>>

\* StdLogger (log.go 647-650): Str2Level, then GetFacility, then Message on
\* the facility it returns
StdLogger(t, n, levelName) ==
  /\ pc[t] = "idle"
  /\ Goto(t, "GetFacility",
          [Frame0 EXCEPT !.op = "StdLogger", !.name = n,
                         !.L = Str2Level(levelName).level,
                         !.message = "hello", !.stack = <<"MessageEx">>])
  /\ UNCHANGED <<regVars, subVars, enabled, active, logFuncName, cfgVars,
                 logVars, mutex, today, clock, exited>>

\* GetFacility (log.go 727-737): with the mutex taken, it returns the
\* registered facility, or calls NewFacility while it holds the mutex;
\* "GetFacilityReturn" is where that call would return to
GetFacility(t) ==
  /\ pc[t] = "GetFacility"
  /\ mutex = Free
  /\ LET fr == frame[t]
     IN  IF fr.name \in DOMAIN facilities
           THEN /\ Return(t, [fr EXCEPT !.f = facilities[fr.name]])
                /\ UNCHANGED mutex
           ELSE /\ mutex' = t
                /\ Goto(t, "NewFacility",
                        [fr EXCEPT !.stack = <<"GetFacilityReturn">> \o @])
  /\ UNCHANGED <<regVars, subVars, enabled, active, logFuncName, cfgVars,
                 logVars, today, clock, exited>>

(***************************************************************************)
(* Alert subscribers.                                                      *)
(***************************************************************************)
\* AddAlertFunc (log.go 365-372)
AddAlertFunc(t) ==
  /\ pc[t] = "idle"
  /\ mutex = Free
  /\ alertSubscriberID < MaxSubscribers
  /\ alertSubscriberID' = alertSubscriberID + 1
  /\ alertSubscribers' = alertSubscribers \cup {alertSubscriberID + 1}
  /\ UNCHANGED <<regVars, enabled, active, logFuncName, cfgVars, logVars,
                 mutex, pc, frame, today, clock, exited>>

\* DelAlertFunc (log.go 375-380)
DelAlertFunc(t, id) ==
  /\ pc[t] = "idle"
  /\ mutex = Free
  /\ alertSubscribers' = alertSubscribers \ {id}
  /\ UNCHANGED <<regVars, alertSubscriberID, enabled, active, logFuncName,
                 cfgVars, logVars, mutex, pc, frame, today, clock, exited>>

(***************************************************************************)
(* Setting a level.                                                        *)
(***************************************************************************)
\* the switch on funcNameMode of setLogLevel (log.go 765-774)
FuncNameModeValue(funcNameMode) ==
  IF funcNameMode = FuncNameModeShort THEN logFuncNameShort
  ELSE IF funcNameMode = FuncNameModeFull THEN logFuncNameFull
  ELSE logFuncNameNone

\* SetLogLevel that calls setLogLevel without taking the mutex
SetLogLevelNoLock(t, n, levelName, funcNameMode) ==
  /\ pc[t] = "idle"
  /\ n \in DOMAIN facilities
  /\ Goto(t, "setLogLevel",
          [Frame0 EXCEPT !.op = "SetLogLevel", !.f = facilities[n],
                         !.T = objs[facilities[n]].level,
                         !.name = n, !.levelName = levelName,
                         !.funcNameMode = funcNameMode,
                         !.stack = <<"unlock">>])
  /\ UNCHANGED <<regVars, subVars, enabled, active, logFuncName, cfgVars,
                 logVars, mutex, today, clock, exited>>

\* Facility.SetLogLevel (log.go 757-761) up to its call of setLogLevel:
\* mutex.Lock(); "unlock" is the deferred mutex.Unlock()
SetLogLevel(t, n, levelName, funcNameMode) ==
  /\ pc[t] = "idle"
  /\ n \in DOMAIN facilities
  /\ mutex = Free
  /\ mutex' = t
  /\ Goto(t, "setLogLevel",
          [Frame0 EXCEPT !.op = "SetLogLevel", !.f = facilities[n],
                         !.T = objs[facilities[n]].level,
                         !.name = n, !.levelName = levelName,
                         !.funcNameMode = funcNameMode,
                         !.stack = <<"unlock">>])
  /\ UNCHANGED <<regVars, subVars, enabled, active, logFuncName, cfgVars,
                 logVars, today, clock, exited>>

\* LevelChanges that takes every valid name for a change
LevelChangesAlways(newLevel, oldLevel) == TRUE

\* the test "newLevel != oldLevel" of setLogLevel (log.go 786)
LevelChanges(newLevel, oldLevel) == newLevel # oldLevel

\* setLogLevel (log.go 764-786) up to the loop over the subscribers
setLogLevel(t) ==
  /\ pc[t] = "setLogLevel"
  /\ logFuncName' = FuncNameModeValue(frame[t].funcNameMode)
  /\ LET fr == frame[t]
         oldLevel == objs[fr.f].level
         r == Str2Level(fr.levelName)
         fr1 == [fr EXCEPT !.oldLevel = oldLevel, !.newLevel = r.level,
                           !.err = ~r.ok]
     IN  IF ~r.ok
           THEN \E opened \in BOOLEAN :
                  LET msg == InvalidLevelMsg(fr.levelName, oldLevel)
                      S == loggerNoLock(FuncNameModeValue(fr.funcNameMode),
                                        objs[fr.f].name, WARNING, msg, opened)
                  IN  /\ StoreLogState(S)
                      /\ clock' = IF enabled THEN clock + 1 ELSE clock
                      /\ Return(t, [fr1 EXCEPT !.logged = Logged(fr, S),
                                               !.sawEnabled = enabled])
           ELSE /\ UNCHANGED <<logVars, clock>>
                /\ IF LevelChanges(r.level, oldLevel)
                     THEN Goto(t, "alerts",
                               [fr1 EXCEPT !.pending = alertSubscribers,
                                           !.subscribers = alertSubscribers])
                     ELSE Return(t, fr1)
  /\ UNCHANGED <<regVars, subVars, enabled, active, cfgVars, mutex, today,
                 exited>>

\* one turn of the loop over alertSubscribers (log.go 787-789): the callback
\* id is called; Go ranges over the map in any order
alert(t, id) ==
  /\ pc[t] = "alerts"
  /\ id \in frame[t].pending
  /\ LET fr == frame[t]
         call == [id |-> id, facility |-> objs[fr.f].name,
                  old |-> fr.oldLevel, new |-> fr.newLevel,
                  stored |-> objs[fr.f].level, holder |-> mutex]
     IN  Goto(t, "alerts", [fr EXCEPT !.pending = @ \ {id},
                                      !.alerts = Append(@, call)])
  /\ UNCHANGED <<regVars, subVars, enabled, active, logFuncName, cfgVars,
                 logVars, mutex, today, clock, exited>>

\* storeLevel that logs the change only if the new level admits INFO
storeLevelFiltered(t) ==
  /\ pc[t] = "alerts"
  /\ frame[t].pending = {}
  /\ objs' = [objs EXCEPT ![frame[t].f].level = frame[t].newLevel]
  /\ \E opened \in BOOLEAN :
       LET fr == frame[t]
           S == IF INFO <= fr.newLevel
                  THEN loggerNoLock(logFuncName, objs[fr.f].name, INFO,
                                    LevelIsMsg(fr.newLevel), opened)
                  ELSE LogState
       IN  /\ StoreLogState(S)
           /\ Return(t, [fr EXCEPT !.logged = Logged(fr, S),
                                    !.sawEnabled = enabled])
  /\ clock' = IF enabled /\ INFO <= frame[t].newLevel THEN clock + 1 ELSE clock
  /\ UNCHANGED <<facilities, subVars, enabled, active, logFuncName, cfgVars,
                 mutex, today, exited>>

\* the end of setLogLevel (log.go 791-795): the level is stored and the
\* change is logged
storeLevel(t) ==
  /\ pc[t] = "alerts"
  /\ frame[t].pending = {}
  /\ objs' = [objs EXCEPT ![frame[t].f].level = frame[t].newLevel]
  /\ \E opened \in BOOLEAN :
       LET fr == frame[t]
           S == loggerNoLock(logFuncName, objs[fr.f].name, INFO,
                             LevelIsMsg(fr.newLevel), opened)
       IN  /\ StoreLogState(S)
           /\ Return(t, [fr EXCEPT !.logged = Logged(fr, S),
                                    !.sawEnabled = enabled])
  /\ clock' = IF enabled THEN clock + 1 ELSE clock
  /\ UNCHANGED <<facilities, subVars, enabled, active, logFuncName, cfgVars,
                 mutex, today, exited>>

\* the deferred mutex.Unlock() of Facility.SetLogLevel (log.go 759)
unlock(t) ==
  /\ pc[t] = "unlock"
  /\ mutex' = Free
  /\ Return(t, frame[t])
  /\ UNCHANGED <<regVars, subVars, enabled, active, logFuncName, cfgVars,
                 logVars, today, clock, exited>>

\* SetLogLevels (log.go 682-686) up to its loop: mutex.Lock(); "unlock" is
\* the deferred mutex.Unlock().  todo is the facilities the range over the
\* map has not yet produced, visited the ones it has, in order; levels0 is
\* the level of every facility when the mutex was taken
SetLogLevels(t, defaultLevelName, overrides, funcNameMode) ==
  /\ pc[t] = "idle"
  /\ mutex = Free
  /\ mutex' = t
  /\ Goto(t, "SetLogLevelsLoop",
          [Frame0 EXCEPT !.op = "SetLogLevels",
                         !.defaultLevelName = defaultLevelName,
                         !.overrides = overrides,
                         !.funcNameMode = funcNameMode,
                         !.todo = {facilities[n] : n \in DOMAIN facilities},
                         !.levels0 = [i \in 1..Len(objs) |-> objs[i].level],
                         !.stack = <<"unlock">>])
  /\ UNCHANGED <<regVars, subVars, enabled, active, logFuncName, cfgVars,
                 logVars, today, clock, exited>>

\* the level name SetLogLevels passes for the facility called name
\* (log.go 687-690)
LevelNameFor(name, defaultLevelName, overrides) ==
  IF name \in DOMAIN overrides THEN overrides[name] ELSE defaultLevelName

\* the loop of SetLogLevels that goes on after an error
SetLogLevelsLoopBestEffort(t) ==
  /\ pc[t] = "SetLogLevelsLoop"
  /\ LET fr == frame[t]
     IN  \/ /\ fr.todo = {}
            /\ Return(t, fr)
         \/ \E f \in fr.todo :
              Goto(t, "setLogLevel",
                   [fr EXCEPT !.f = f, !.name = objs[f].name,
                              !.levelName = LevelNameFor(objs[f].name,
                                              fr.defaultLevelName, fr.overrides),
                              !.todo = @ \ {f},
                              !.visited = Append(@, f),
                              !.stack = <<"SetLogLevelsLoop">> \o @])
  /\ UNCHANGED <<regVars, subVars, enabled, active, logFuncName, cfgVars,
                 logVars, mutex, today, clock, exited>>

\* one turn of the loop of SetLogLevels (log.go 686-697): it returns after a
\* call of setLogLevel that gave an error or when the map is exhausted, else
\* it calls setLogLevel for the next facility; Go ranges over the map in any
\* order
SetLogLevelsLoop(t) ==
  /\ pc[t] = "SetLogLevelsLoop"
  /\ LET fr == frame[t]
     IN  \/ /\ fr.err \/ fr.todo = {}
            /\ Return(t, fr)
         \/ /\ ~fr.err
            /\ \E f \in fr.todo :
                 Goto(t, "setLogLevel",
                      [fr EXCEPT !.f = f, !.name = objs[f].name,
                                 !.levelName = LevelNameFor(objs[f].name,
                                                 fr.defaultLevelName, fr.overrides),
                                 !.todo = @ \ {f},
                                 !.visited = Append(@, f),
                                 !.stack = <<"SetLogLevelsLoop">> \o @])
  /\ UNCHANGED <<regVars, subVars, enabled, active, logFuncName, cfgVars,
                 logVars, mutex, today, clock, exited>>

(***************************************************************************)
(* Configuration, shutdown and the calendar.                               *)
(***************************************************************************)
\* the pattern SetFile derives from the directory (log.go 398-406)
PatternOf(directory) ==
  IF directory = "-" THEN PatternBufferOnly ELSE PatternFile

\* SetFile (log.go 385-407)
SetFile(t, directory, bufSize) ==
  /\ pc[t] = "idle"
  /\ fileNamePattern' = PatternOf(directory)
  /\ fileWriterBufSize' = bufSize
  /\ UNCHANGED <<regVars, subVars, enabled, active, logFuncName, logVars,
                 mutex, pc, frame, today, clock, exited>>

\* Enable (log.go 294-296)
Enable(t) ==
  /\ pc[t] = "idle"
  /\ enabled' = TRUE
  /\ UNCHANGED <<regVars, subVars, active, logFuncName, cfgVars, logVars,
                 mutex, pc, frame, today, clock, exited>>

\* Disable (log.go 299-301)
Disable(t) ==
  /\ pc[t] = "idle"
  /\ enabled' = FALSE
  /\ UNCHANGED <<regVars, subVars, active, logFuncName, cfgVars, logVars,
                 mutex, pc, frame, today, clock, exited>>

\* exit (log.go 242-243): the exit hook runs once, it starts with
\* Message(INFO, "Log file closed")
exit(t) ==
  /\ pc[t] = "idle"
  /\ ~exited
  /\ exited' = TRUE
  /\ Goto(t, "MessageEx",
          [Frame0 EXCEPT !.op = "exit", !.f = stdFacility, !.L = INFO,
                         !.message = "Log file closed",
                         !.stack = <<"exitDump">>])
  /\ UNCHANGED <<regVars, subVars, enabled, active, logFuncName, cfgVars,
                 logVars, mutex, today, clock>>

\* writerFlush (log.go 234-240)
writerFlush(S) == IF S.fileWriter # Nil THEN BufFlush(S) ELSE S

\* dumpLines that writes the newest line first
dumpLinesNewestFirst(S, dumped) ==
  IF Len(S.beforeFileBuf) > 0 /\ dumped
    THEN [S EXCEPT !.dump =
            [exists |-> TRUE,
             lines |-> @.lines \o
                       [i \in 1..Len(S.beforeFileBuf) |->
                          S.beforeFileBuf[Len(S.beforeFileBuf) + 1 - i]]]]
    ELSE S

\* the crash dump of exit (log.go 245-253): a non-empty pre-open buffer is
\* appended to the crash-dump file; dumped is the outcome of os.OpenFile
dumpLines(S, dumped) ==
  IF Len(S.beforeFileBuf) > 0 /\ dumped
    THEN [S EXCEPT !.dump =
            [exists |-> TRUE, lines |-> @.lines \o S.beforeFileBuf]]
    ELSE S

\* the rest of exit (log.go 245-261); dumped is the outcome of os.OpenFile
\* on the crash-dump file
exitDump(t) ==
  /\ pc[t] = "exitDump"
  /\ \E dumped \in BOOLEAN :
       LET S1 == dumpLines(LogState, dumped)
           S2 == writerFlush(S1)
           S3 == IF S2.file # Nil THEN [S2 EXCEPT !.file.closed = TRUE] ELSE S2
       IN  StoreLogState(S3)
  /\ active' = FALSE
  /\ Return(t, frame[t])
  /\ UNCHANGED <<regVars, subVars, enabled, logFuncName, cfgVars, mutex,
                 today, clock, exited>>

\* midnight passes
NextDay ==
  /\ today < Len(DateStr)
  /\ today' = today + 1
  /\ UNCHANGED <<regVars, subVars, enabled, active, logFuncName, cfgVars,
                 logVars, mutex, pc, frame, clock, exited>>

(***************************************************************************)
(* Specifications.                                                         *)
(***************************************************************************)
\* the arguments callers pass
LevelInputs == {-TRACE1, -INFO, ERR, TRACE1}
EmitLevelInputs == {-TRACE1, ERR, TRACE1}
LevelNameInputs == {"ERR", "DE", "bogus"}
FuncNameModeInputs == {FuncNameModeNone, FuncNameModeFull}
DirectoryInputs == {"-", "logs"}
BufSizeInputs == {0, 2}
CreateNames == Names \cup {"db"}
DefaultLevelNameInputs == {"ERR", "bogus"}
OverridesInputs ==
  {[n \in {} |-> ""], [n \in {"net"} |-> "bogus"], [n \in {"net"} |-> "DE"]}

\* the steps a thread takes inside a call
Step(t) ==
  \/ Done(t)
  \/ MessageEx(t)
  \/ logger(t)
  \/ loggerLocked(t)
  \/ NewFacility(t)
  \/ GetFacility(t)
  \/ setLogLevel(t)
  \/ \E id \in 1..MaxSubscribers : alert(t, id)
  \/ storeLevel(t)
  \/ SetLogLevelsLoop(t)
  \/ unlock(t)
  \/ exitDump(t)

\* the calls a thread makes
Call(t) ==
  \/ \E n \in Names, L \in LevelInputs : Message(t, n, L)
  \/ \E n \in Names, l \in LevelNameInputs : StdLogger(t, n, l)
  \/ \E n \in Names, l \in LevelNameInputs, m \in FuncNameModeInputs :
       SetLogLevel(t, n, l, m)
  \/ \E l \in DefaultLevelNameInputs, o \in OverridesInputs,
        m \in FuncNameModeInputs : SetLogLevels(t, l, o, m)
  \/ exit(t)
  \/ \E n \in Names : CallNewFacility(t, n)
  \/ \E n \in Names : CallGetFacility(t, n)
  \/ AddAlertFunc(t)
  \/ \E id \in 1..MaxSubscribers : DelAlertFunc(t, id)
  \/ \E d \in DirectoryInputs, b \in BufSizeInputs : SetFile(t, d, b)
  \/ Enable(t)
  \/ Disable(t)

Next ==
  \/ \E t \in Threads : Step(t)
  \/ \E t \in Threads : clock < MaxEmit /\ Call(t)
  \/ NextDay

Spec == Init /\ [][Next]_vars

(***************************************************************************)
(* SpecEmit: two threads emit on the standard facility while its level is  *)
(* set and logging is switched off and on.                                 *)
(***************************************************************************)
StepEmit(t) ==
  \/ Done(t)
  \/ MessageEx(t)
  \/ logger(t)
  \/ loggerLocked(t)
  \/ setLogLevel(t)
  \/ storeLevel(t)
  \/ unlock(t)

NextEmit ==
  \/ \E t \in Threads : StepEmit(t)
  \/ \E t \in Threads, L \in EmitLevelInputs :
       clock < MaxEmit /\ Message(t, StdFacilityName, L)
  \/ \E l \in LevelNameInputs :
       clock < MaxEmit /\ SetLogLevel("t1", StdFacilityName, l, FuncNameModeNone)
  \/ clock < MaxEmit /\ Enable("t1")
  \/ clock < MaxEmit /\ Disable("t1")

SpecEmit == Init /\ [][NextEmit]_vars

Abs(x) == IF x < 0 THEN -x ELSE x

\* thread t has completed a call of Message that Disable did not cut short
Emitted(t) ==
  /\ pc[t] = "done"
  /\ frame[t].op = "Message"
  /\ frame[t].passed => frame[t].sawEnabled

\* C1 as stated: a completed Message call with level L on a facility whose
\* level was T at the call has appended its line to the ring buffer if and
\* only if abs(L) <= T.
C1_FilterByAbs ==
  \A t \in Threads :
    Emitted(t) => (frame[t].logged # <<>> <=> Abs(frame[t].L) <= frame[t].T)

\* C1 amended: with logging enabled, a completed Message call with level L on
\* a facility whose level was T at the call has appended one line to the ring
\* buffer if and only if L <= T, so always when L is negative; the line
\* carries the level name of abs(L).
C1_FilterBySigned ==
  \A t \in Threads :
    Emitted(t) =>
      /\ frame[t].logged # <<>> <=> frame[t].L <= frame[t].T
      /\ frame[t].logged # <<>> =>
           /\ Len(frame[t].logged) = 1
           /\ frame[t].logged[1].lvl = LevelName(Abs(frame[t].L))

\* a message with a negative level whose absolute value is above the level
\* of the facility has been logged
C1_Witness ==
  \E t \in Threads :
    /\ Emitted(t)
    /\ frame[t].L < 0
    /\ Abs(frame[t].L) > frame[t].T
    /\ frame[t].logged # <<>>
    /\ frame[t].logged[1].lvl = "T1"

(***************************************************************************)
(* SpecRegistry: two threads look facilities up, create them and log by    *)
(* facility name.  Every thread that can take a step of its call           *)
(* eventually takes one: Go's mutex hands the lock to every waiter.        *)
(***************************************************************************)
StepRegistry(t) ==
  \/ Done(t)
  \/ GetFacility(t)
  \/ NewFacility(t)
  \/ MessageEx(t)
  \/ logger(t)
  \/ loggerLocked(t)

NextRegistry ==
  \/ \E t \in Threads : StepRegistry(t)
  \/ \E t \in Threads, n \in Names : clock < MaxEmit /\ CallGetFacility(t, n)
  \/ \E t \in Threads, n \in Names : clock < MaxEmit /\ CallNewFacility(t, n)
  \/ \E t \in Threads, n \in Names, l \in {"ERR", "bogus"} :
       clock < MaxEmit /\ StdLogger(t, n, l)

SpecRegistry ==
  /\ Init
  /\ [][NextRegistry]_vars
  /\ \A t \in Threads : SF_vars(StepRegistry(t))

\* thread t is inside GetFacility, the NewFacility call it makes included
InGetFacility(t) ==
  \/ pc[t] = "GetFacility"
  \/ /\ pc[t] = "NewFacility"
     /\ frame[t].stack # <<>>
     /\ Head(frame[t].stack) = "GetFacilityReturn"

\* C2: every call of GetFacility returns, whether the name is registered or
\* not (and so does the GetFacility call StdLogger makes).
C2_GetFacilityReturns ==
  \A t \in Threads : InGetFacility(t) ~> ~InGetFacility(t)

(***************************************************************************)
(* SpecLong: one thread emits on the standard facility, with no file       *)
(* destination configured, until the pre-open buffer has overflowed.       *)
(***************************************************************************)
StepLong(t) ==
  \/ Done(t)
  \/ MessageEx(t)
  \/ logger(t)
  \/ loggerLocked(t)

NextLong ==
  \/ StepLong("t1")
  \/ /\ clock < beforeFileBufSize + LongSlack
     /\ Message("t1", StdFacilityName, INFO)

SpecLong == Init /\ [][NextLong]_vars

\* C3 as stated: the pre-open buffer never holds more than beforeFileBufSize
\* entries, the "..." entry included.
C3_AtMostCapacity == Len(beforeFileBuf) <= beforeFileBufSize

\* C3 amended: the pre-open buffer never holds more than beforeFileBufSize
\* lines and one "..." entry, that is beforeFileBufSize + 1 entries.
C3_AtMostCapacityAndMarker ==
  /\ Len(beforeFileBuf) <= beforeFileBufSize + 1
  /\ \A i \in 1..Len(beforeFileBuf) :
       beforeFileBuf[i] = Marker => i = beforeFileBufSize + 1

\* the buffer holds beforeFileBufSize + 1 entries and lines have been emitted
\* since it got the last of them
C3_Witness ==
  /\ Len(beforeFileBuf) = beforeFileBufSize + 1
  /\ clock > beforeFileBufSize + 1

\* C4: once more lines than beforeFileBufSize have been emitted with no file
\* destination configured, the pre-open buffer is the first beforeFileBufSize
\* emitted lines in emit order followed by one "..." entry, and it is so in
\* every later state.
C4_Truncated ==
  (fileNamePattern = PatternUnset /\ clock > beforeFileBufSize) =>
    /\ Len(console) >= beforeFileBufSize
    /\ beforeFileBuf = SubSeq(console, 1, beforeFileBufSize) \o <<Marker>>
    /\ \A i \in 1..beforeFileBufSize : beforeFileBuf[i].tm = i

\* lines have been emitted after the one that put the "..." entry in
C4_Witness ==
  /\ fileNamePattern = PatternUnset
  /\ clock = beforeFileBufSize + LongSlack
  /\ beforeFileBuf[Len(beforeFileBuf)] = Marker
  /\ Len(console) = clock

Min(a, b) == IF a <= b THEN a ELSE b

\* C6: the ring buffer never holds more than lastBufSize lines; it holds the
\* last min(n, lastBufSize) of the n lines emitted so far, in emit order, and
\* the last entry GetLastLog returns is the newest line.
C6_RingIsFifo ==
  LET n == Len(console)
      k == Min(n, lastBufSize)
  IN  /\ Len(lastBuf) = k
      /\ Len(lastBuf) <= lastBufSize
      /\ \A i \in 1..k : lastBuf[i] = console[n - k + i]
      /\ n > 0 => GetLastLog[k] = TrimSpace(console[n])

\* lastBufSize + 1 lines have been emitted: the first is gone, the last is
\* the last of the ring buffer
C6_Witness ==
  /\ clock = lastBufSize + 1
  /\ Len(lastBuf) = lastBufSize
  /\ lastBuf[1].tm = 2
  /\ GetLastLog[lastBufSize].tm = lastBufSize + 1
  /\ GetLastLog[lastBufSize].eos = ""

(***************************************************************************)
(* SpecFile: a thread emits on the standard facility while the file        *)
(* destination is configured, days pass, logging is switched off and on    *)
(* and the process shuts down; a second thread emits along.                *)
(***************************************************************************)
StepFile(t) ==
  \/ Done(t)
  \/ MessageEx(t)
  \/ logger(t)
  \/ loggerLocked(t)
  \/ exitDump(t)

NextFile ==
  \/ \E t \in Threads : StepFile(t)
  \/ \E t \in Threads : clock < MaxEmit /\ Message(t, StdFacilityName, INFO)
  \/ \E d \in DirectoryInputs, b \in BufSizeInputs :
       clock < MaxEmit /\ SetFile("t1", d, b)
  \/ clock < MaxEmit /\ exit("t1")
  \/ clock < MaxEmit /\ Enable("t1")
  \/ clock < MaxEmit /\ Disable("t1")
  \/ NextDay

SpecFile == Init /\ [][NextFile]_vars

\* what has been written to the log file of day d through handle f and
\* buffered writer w: the lines in the file and behind them the lines the
\* writer still holds
StreamOf(fs, f, w, d) ==
  fs[d] \o (IF f # Nil /\ w # Nil /\ f.dt = d THEN w.buf ELSE <<>>)

\* nothing has been written to any log file
NoFileYet == \A d \in DOMAIN files : StreamOf(files, file, fileWriter, d) = <<>>

C5_EmptyAfterOpen == ~NoFileYet => beforeFileBuf = <<>>

C5_DrainStep ==
  LET text == lastBuf'[Len(lastBuf')]
      grown == /\ Len(beforeFileBuf') = Len(beforeFileBuf) + 1
               /\ SubSeq(beforeFileBuf', 1, Len(beforeFileBuf)) = beforeFileBuf
  IN  \* the first successful open
      /\ (NoFileYet /\ ~NoFileYet') =>
           /\ file' # Nil
           /\ StreamOf(files', file', fileWriter', file'.dt)
                = <<Banner(text.dt, text.tm)>> \o beforeFileBuf \o <<text>>
           /\ beforeFileBuf' = <<>>
      \* the buffer changes by a pre-open append or by the first open only
      /\ beforeFileBuf' # beforeFileBuf =>
           \/ NoFileYet /\ ~NoFileYet'
           \/ fileNamePattern = PatternUnset /\ grown
      \* a line is logged and the open fails
      /\ (active /\ fileNamePattern = PatternFile /\ clock' # clock
             /\ file' = Nil) =>
           /\ beforeFileBuf' = beforeFileBuf
           /\ \A d \in DOMAIN files :
                StreamOf(files', file', fileWriter', d)
                  = StreamOf(files, file, fileWriter, d)

\* C5: the first successful open writes the launch line, then the lines of
\* the pre-open buffer in their order, then the line whose emit opened the
\* file, and empties the buffer; the buffer changes in no other way but by a
\* pre-open append, a failed open leaves it alone and writes nothing, and
\* once a file has been written to the buffer is empty in every state.
C5_DrainedOnce == []C5_EmptyAfterOpen /\ [][C5_DrainStep]_vars

\* two lines emitted before the destination was set stand in the file behind
\* the launch line and before the line that opened the file
C5_Witness ==
  \E d \in DOMAIN files :
    LET S == StreamOf(files, file, fileWriter, d)
    IN  /\ Len(S) >= 4
        /\ S[1].kind = "launch" /\ S[1].tm = 3
        /\ S[2].tm = 1 /\ S[3].tm = 2 /\ S[4].tm = 3
        /\ beforeFileBuf = <<>>

\* C7: the line of every Message call that passed the level filter and found
\* logging enabled is on the console and, unless lastBufSize newer lines have
\* pushed it out, in the ring buffer, whatever the file destination is.
C7_AlwaysRecorded ==
  \A t \in Threads :
    (pc[t] = "done" /\ frame[t].passed /\ frame[t].sawEnabled) =>
      /\ Len(frame[t].logged) = 1
      /\ \E i \in 1..Len(console) : console[i] = frame[t].logged[1]
      /\ clock - frame[t].logged[1].tm < lastBufSize =>
           \E i \in 1..Len(lastBuf) : lastBuf[i] = frame[t].logged[1]

\* a line has been recorded although the log file could not be opened
C7_Witness ==
  \E t \in Threads :
    /\ pc[t] = "done" /\ frame[t].op = "Message"
    /\ frame[t].passed /\ frame[t].sawEnabled
    /\ active /\ fileNamePattern = PatternFile /\ file = Nil
    /\ lastBuf[Len(lastBuf)] = frame[t].logged[1]
    /\ console[Len(console)] = frame[t].logged[1]

(***************************************************************************)
(* SpecAlerts: one thread sets the levels of the standard facility and of  *)
(* a second one, while the other adds and removes alert callbacks, creates *)
(* the second facility and switches logging off.                          *)
(***************************************************************************)
StepAlerts(t) ==
  \/ Done(t)
  \/ NewFacility(t)
  \/ setLogLevel(t)
  \/ \E id \in 1..MaxSubscribers : alert(t, id)
  \/ storeLevel(t)
  \/ unlock(t)

NextAlerts ==
  \/ \E t \in Threads : StepAlerts(t)
  \/ \E n \in Names, l \in LevelNameInputs :
       clock < MaxEmit /\ SetLogLevel("t1", n, l, FuncNameModeNone)
  \/ clock < MaxEmit /\ CallNewFacility("t2", "net")
  \/ clock < MaxEmit /\ AddAlertFunc("t2")
  \/ \E id \in 1..MaxSubscribers : clock < MaxEmit /\ DelAlertFunc("t2", id)
  \/ clock < MaxEmit /\ Disable("t2")

SpecAlerts == Init /\ [][NextAlerts]_vars

\* levelName is the long or the short name of level in the table of levels
NamesLevel(levelName, level) ==
  \E i \in 1..Len(levels) :
    /\ levels[i].code = level
    /\ levelName = levels[i].name \/ levelName = levels[i].shortName

IsLevelName(levelName) ==
  \E i \in 1..Len(levels) : NamesLevel(levelName, levels[i].code)

\* thread t is in, or has the results of, a call of Facility.SetLogLevel;
\* frame[t].T is the level the facility had when the call took the mutex
InSetLogLevel(t) == frame[t].op = "SetLogLevel"
SetLogLevelReturned(t) ==
  InSetLogLevel(t) /\ pc[t] \in {"unlock", "done"}

\* C8: a SetLogLevel whose level name names the level the facility already
\* has returns without an error, has invoked no alert subscriber and has
\* appended no line; the step of setLogLevel that decides this changes
\* neither a level nor the ring buffer nor the console, and the level is
\* still the old one while the call holds the mutex.
C8_SameLevelReturn ==
  \A t \in Threads :
    (SetLogLevelReturned(t) /\ NamesLevel(frame[t].levelName, frame[t].T)) =>
      /\ ~frame[t].err
      /\ frame[t].oldLevel = frame[t].T
      /\ frame[t].alerts = <<>>
      /\ frame[t].logged = <<>>
      /\ pc[t] = "unlock" => objs[frame[t].f].level = frame[t].T

C8_SameLevelStep ==
  \A t \in Threads :
    ( /\ pc[t] = "setLogLevel"
      /\ pc'[t] # "setLogLevel"
      /\ NamesLevel(frame[t].levelName, frame[t].T) ) =>
        /\ pc'[t] = "unlock"
        /\ objs' = objs
        /\ lastBuf' = lastBuf
        /\ console' = console

C8_SameLevelNoOp == []C8_SameLevelReturn /\ [][C8_SameLevelStep]_vars

\* a same-level SetLogLevel has returned although logging is enabled and an
\* alert subscriber is registered
C8_Witness ==
  \E t \in Threads :
    /\ pc[t] = "unlock"
    /\ InSetLogLevel(t)
    /\ frame[t].levelName = "ERR"
    /\ frame[t].T = ERR
    /\ enabled
    /\ alertSubscribers # {}

\* C9: a SetLogLevel whose level name names a level other than the one the
\* facility has keeps the mutex and the old level through all its alert
\* calls; when it returns it has called exactly the subscribers registered
\* under that mutex, each once, with (facility name, old level, new level),
\* every call made while the old level was still stored and the caller held
\* the mutex; the new level is stored before the mutex is released.  An id
\* that DelAlertFunc removed is not among the registered ones, so not called.
C9_AlertsOnChange ==
  \A t \in Threads :
    LET fr == frame[t]
        ids == {fr.alerts[i].id : i \in 1..Len(fr.alerts)}
    IN  ( /\ InSetLogLevel(t)
          /\ IsLevelName(fr.levelName)
          /\ ~NamesLevel(fr.levelName, fr.T) ) =>
            /\ pc[t] \in {"setLogLevel", "alerts", "unlock"} => mutex = t
            /\ pc[t] = "alerts" =>
                 /\ objs[fr.f].level = fr.T
                 /\ ids \subseteq alertSubscribers
            /\ pc[t] = "unlock" =>
                 /\ ids = alertSubscribers
                 /\ NamesLevel(fr.levelName, objs[fr.f].level)
            /\ pc[t] \in {"unlock", "done"} =>
                 /\ ~fr.err
                 /\ fr.oldLevel = fr.T
                 /\ Len(fr.alerts) = Cardinality(ids)
                 /\ \A i \in 1..Len(fr.alerts) :
                      /\ fr.alerts[i].facility = fr.name
                      /\ fr.alerts[i].old = fr.T
                      /\ NamesLevel(fr.levelName, fr.alerts[i].new)
                      /\ fr.alerts[i].stored = fr.T
                      /\ fr.alerts[i].holder = t

\* the level of "net" has gone from INFO to ERR after subscriber 1 was
\* removed: subscriber 2 alone was called
C9_Witness ==
  \E t \in Threads :
    /\ pc[t] = "unlock"
    /\ InSetLogLevel(t)
    /\ frame[t].name = "net"
    /\ frame[t].levelName = "ERR"
    /\ frame[t].T # ERR
    /\ alertSubscriberID = 2
    /\ alertSubscribers = {2}
    /\ Len(frame[t].alerts) = 1
    /\ frame[t].alerts[1].id = 2
    /\ objs[frame[t].f].level = ERR

\* C10: a SetLogLevel whose level name is neither a long nor a short name of
\* the table returns an error and the level the facility had, has called no
\* alert subscriber and leaves the level as it was; with logging enabled it
\* has appended exactly one line, a WARNING of that facility naming the
\* rejected name, which is the newest line of the ring buffer while the call
\* holds the mutex; with logging disabled it has appended none.
C10_InvalidName ==
  \A t \in Threads :
    LET fr == frame[t]
    IN  (SetLogLevelReturned(t) /\ ~IsLevelName(fr.levelName)) =>
          /\ fr.err
          /\ fr.oldLevel = fr.T
          /\ fr.alerts = <<>>
          /\ pc[t] = "unlock" => objs[fr.f].level = fr.T
          /\ ~fr.sawEnabled => fr.logged = <<>>
          /\ fr.sawEnabled =>
               /\ Len(fr.logged) = 1
               /\ fr.logged[1].kind = "line"
               /\ fr.logged[1].lvl = "WA"
               /\ fr.logged[1].fac = FacilityTag(fr.name)
               /\ fr.logged[1].msg = InvalidLevelMsg(fr.levelName, fr.T)
               /\ pc[t] = "unlock" => lastBuf[Len(lastBuf)] = fr.logged[1]

\* "bogus" has been rejected for the facility "net" while a subscriber is
\* registered, and the WARNING is in the ring buffer
C10_Witness ==
  \E t \in Threads :
    /\ pc[t] = "unlock"
    /\ InSetLogLevel(t)
    /\ frame[t].name = "net"
    /\ frame[t].levelName = "bogus"
    /\ frame[t].err
    /\ alertSubscribers # {}
    /\ Len(frame[t].logged) = 1
    /\ lastBuf # <<>>
    /\ lastBuf[Len(lastBuf)].lvl = "WA"
    /\ lastBuf[Len(lastBuf)].fac = " <net>"

(***************************************************************************)
(* SpecLevels: one thread sets levels, of one facility or of all, with     *)
(* valid and invalid names and any caller-tag mode, while the other        *)
(* creates the second facility.                                            *)
(***************************************************************************)
StepLevels(t) ==
  \/ Done(t)
  \/ NewFacility(t)
  \/ setLogLevel(t)
  \/ storeLevel(t)
  \/ SetLogLevelsLoop(t)
  \/ unlock(t)

NextLevels ==
  \/ \E t \in Threads : StepLevels(t)
  \/ \E n \in Names, l \in LevelNameInputs, m \in FuncNameModeInputs :
       clock < MaxEmit /\ SetLogLevel("t1", n, l, m)
  \/ \E l \in DefaultLevelNameInputs, o \in OverridesInputs,
        m \in FuncNameModeInputs :
       clock < MaxEmit /\ SetLogLevels("t1", l, o, m)
  \/ clock < MaxEmit /\ CallNewFacility("t2", "net")

SpecLevels == Init /\ [][NextLevels]_vars

\* C11: no step of a SetLogLevel call whose level name is neither a long nor
\* a short name of the table changes the level of a facility or the
\* process-wide caller-tag mode, whatever funcNameMode was passed.
C11_RejectedKeepsConfig ==
  [][ \A t \in Threads :
        ( /\ InSetLogLevel(t)
          /\ ~IsLevelName(frame[t].levelName)
          /\ pc[t] \in {"setLogLevel", "unlock"}
          /\ pc'[t] # pc[t] ) =>
            /\ objs' = objs
            /\ logFuncName' = logFuncName ]_vars

\* the elements of a sequence
Range(q) == {q[i] : i \in 1..Len(q)}

\* C12: when SetLogLevels is about to release the mutex, the facilities it
\* visited and the ones it did not are together the registered ones, none
\* visited twice.  Every visited facility but the last was given a valid
\* name, its override if it has one and else the default, and has the level
\* of that name.  If the name for the last visited one is valid too, no
\* error is returned and none is left unvisited; if it is invalid, the error
\* is returned, and that facility and every unvisited one have the level
\* they had when the call began.
C12_FailFast ==
  \A t \in Threads :
    LET fr == frame[t]
        n == Len(fr.visited)
        NameOf(f) == LevelNameFor(objs[f].name, fr.defaultLevelName, fr.overrides)
    IN  (fr.op = "SetLogLevels" /\ pc[t] = "unlock") =>
          /\ Range(fr.visited) \cup fr.todo =
               {facilities[x] : x \in DOMAIN facilities}
          /\ Range(fr.visited) \cap fr.todo = {}
          /\ Cardinality(Range(fr.visited)) = n
          /\ \A i \in 1..n :
               (i < n \/ IsLevelName(NameOf(fr.visited[i]))) =>
                 NamesLevel(NameOf(fr.visited[i]), objs[fr.visited[i]].level)
          /\ fr.err <=> (n > 0 /\ ~IsLevelName(NameOf(fr.visited[n])))
          /\ ~fr.err => fr.todo = {}
          /\ fr.err =>
               /\ objs[fr.visited[n]].level = fr.levels0[fr.visited[n]]
               /\ \A f \in fr.todo : objs[f].level = fr.levels0[f]

\* SetLogLevels("ERR", {"net": "bogus"}) visited the standard facility
\* first: it is at ERR now, and the error for "net" is returned
C12_Witness ==
  \E t \in Threads :
    /\ pc[t] = "unlock"
    /\ frame[t].op = "SetLogLevels"
    /\ frame[t].err
    /\ frame[t].visited = <<stdFacility, 2>>
    /\ frame[t].levels0[stdFacility] = DEBUG
    /\ objs[stdFacility].level = ERR
    /\ objs[2].name = "net"
    /\ objs[2].level = DEBUG

\* SetLogLevels("ERR", {"net": "bogus"}) visited "net" first: the standard
\* facility was not visited and keeps its level
C12_WitnessUnvisited ==
  \E t \in Threads :
    /\ pc[t] = "unlock"
    /\ frame[t].op = "SetLogLevels"
    /\ frame[t].err
    /\ frame[t].visited = <<2>>
    /\ frame[t].todo = {stdFacility}
    /\ objs[stdFacility].level = DEBUG

(***************************************************************************)
(* SpecCreate: two threads create facilities, also with the same name at   *)
(* the same time, while one of them changes the level of the standard      *)
(* facility.                                                               *)
(***************************************************************************)
StepCreate(t) ==
  \/ Done(t)
  \/ NewFacility(t)
  \/ setLogLevel(t)
  \/ storeLevel(t)
  \/ unlock(t)

NextCreate ==
  \/ \E t \in Threads : StepCreate(t)
  \/ \E t \in Threads, n \in CreateNames :
       clock < MaxEmit /\ CallNewFacility(t, n)
  \/ \E l \in {"ERR", "DE"} :
       clock < MaxEmit /\ SetLogLevel("t1", StdFacilityName, l, FuncNameModeNone)

SpecCreate == Init /\ [][NextCreate]_vars

\* every Facility object is the one the registry has for its name, so no
\* two objects have one name; a caller to whom NewFacility has returned
\* holds the registered object of the name it asked for
C13_OnePerName ==
  /\ \A i \in 1..Len(objs) :
       /\ objs[i].name \in DOMAIN facilities
       /\ facilities[objs[i].name] = i
  /\ \A n \in DOMAIN facilities :
       /\ facilities[n] \in 1..Len(objs)
       /\ objs[facilities[n]].name = n
  /\ \A t \in Threads :
       (pc[t] = "done" /\ frame[t].op = "NewFacility") =>
         /\ frame[t].name \in DOMAIN facilities
         /\ frame[t].f = facilities[frame[t].name]

\* a registered name stays registered, to the same object
C13_NeverLost ==
  \A n \in DOMAIN facilities :
    /\ n \in DOMAIN facilities'
    /\ facilities'[n] = facilities[n]

\* C13: under every interleaving of NewFacility calls, with the same name or
\* not, one Facility object exists per name, it is the registered one and
\* the one every caller of that name receives; the registry never drops or
\* remaps a name.
C13_OneFacilityPerName == []C13_OnePerName /\ [][C13_NeverLost]_vars

\* both threads have called NewFacility("net") and hold the same, only
\* object of that name
C13_Witness ==
  /\ \A t \in Threads :
       /\ pc[t] = "done"
       /\ frame[t].op = "NewFacility"
       /\ frame[t].name = "net"
       /\ frame[t].f = facilities["net"]
  /\ Cardinality({i \in 1..Len(objs) : objs[i].name = "net"}) = 1

\* the second thread waits for the mutex inside NewFacility("net") while the
\* first has found the name missing and is about to create the facility
C13_Race ==
  /\ pc["t1"] = "NewFacilityCreate"
  /\ pc["t2"] = "NewFacility"
  /\ frame["t1"].name = "net"
  /\ frame["t2"].name = "net"

\* a step that allocates a facility gives it DEBUG if its name is the
\* standard one and else the level the standard facility has in that step;
\* a step that changes the level of the standard facility changes no other
\* facility
C14_LevelStep ==
  /\ Len(objs') >= Len(objs)
  /\ \A i \in 1..Len(objs') :
       i > Len(objs) =>
         objs'[i].level = IF objs'[i].name = StdFacilityName THEN DEBUG
                          ELSE objs[stdFacility].level
  /\ objs'[stdFacility].level # objs[stdFacility].level =>
       \A i \in 1..Len(objs) : i # stdFacility => objs'[i] = objs[i]

\* C14: the standard facility is at DEBUG until its level is set; a facility
\* created with another name starts with the level the standard facility
\* has at that moment, and keeps it when the standard facility changes.
C14_InitialLevel ==
  /\ [](clock = 0 => objs[stdFacility].level = DEBUG)
  /\ [][C14_LevelStep]_vars

\* "net" was created while the standard facility was at DEBUG and "db"
\* after it went to ERR: each has the level of its creation
C14_Witness ==
  /\ Len(objs) = 3
  /\ objs[stdFacility].level = ERR
  /\ objs[2] = [name |-> "net", level |-> DEBUG]
  /\ objs[3] = [name |-> "db", level |-> ERR]

\* the stream of day d before and after a step
StreamNow(d) == StreamOf(files, file, fileWriter, d)
StreamNext(d) == StreamOf(files', file', fileWriter', d)

\* a step in which logger formats a line while logging is active and a real
\* file destination is configured
FileEmit ==
  /\ clock' # clock
  /\ active
  /\ fileNamePattern = PatternFile

\* an emit that finds a file open and the day stamp equal to its date leaves
\* the handle as it is and adds its line, and nothing else, to the stream of
\* that file; any other emit that ends with a file open has a new handle for
\* its date, the old file holds all that was written to it, and the stream
\* of the new one goes on with the launch line, the pre-open buffer and the
\* line
C15_OpenStep ==
  LET d == DateStr[today]
      text == lastBuf'[Len(lastBuf')]
      reopen == file = Nil \/ lastWriteDate # d
  IN  FileEmit =>
        /\ ~reopen =>
             /\ file' = file
             /\ StreamNext(d) = StreamNow(d) \o <<text>>
             /\ lastWriteDate' = d
        /\ (reopen /\ file' # Nil) =>
             /\ file' = [dt |-> d, closed |-> FALSE]
             /\ StreamNext(d) =
                  StreamNow(d) \o <<Banner(d, text.tm)>> \o beforeFileBuf
                               \o <<text>>
             /\ lastWriteDate' = d
             /\ (file # Nil /\ file.dt # d) =>
                  files'[file.dt] = StreamNow(file.dt)
        /\ \A e \in DOMAIN files : e # d => StreamNext(e) = StreamNow(e)

\* C15: with a real file destination, logger opens a file exactly when none
\* is open or the day stamp differs from the date of the line: emits of the
\* day of the open file go to it without a new launch line, the first emit
\* of another day closes it and opens the file of the new day before the
\* line is written.
C15_OpenWhenNeeded == [][C15_OpenStep]_vars

\* two lines went to the file of the first day behind one launch line, the
\* third was emitted on the second day and opened the file of that day
C15_Witness ==
  /\ file = [dt |-> DateStr[2], closed |-> FALSE]
  /\ Len(StreamNow(DateStr[1])) = 3
  /\ StreamNow(DateStr[1])[1].kind = "launch"
  /\ StreamNow(DateStr[1])[2].kind = "line"
  /\ StreamNow(DateStr[1])[3].kind = "line"
  /\ files[DateStr[1]] = StreamNow(DateStr[1])
  /\ Len(StreamNow(DateStr[2])) = 2
  /\ StreamNow(DateStr[2])[1].kind = "launch"
  /\ StreamNow(DateStr[2])[2].dt = DateStr[2]

\* an emit that has to open a file and ends with none open: the calling
\* thread leaves logger, the line is the newest of the ring buffer and of
\* the console, no stream of any file has changed, the pre-open buffer is
\* as it was, and the day stamp is empty
C16_FailedOpenStep ==
  LET d == DateStr[today]
      text == lastBuf'[Len(lastBuf')]
  IN  (FileEmit /\ (file = Nil \/ lastWriteDate # d) /\ file' = Nil) =>
        /\ \E t \in Threads :
             /\ pc[t] = "loggerLocked"
             /\ pc'[t] \in {"done", "exitDump"}
             /\ frame'[t].logged = <<text>>
        /\ text.kind = "line"
        /\ text.tm = clock'
        /\ lastBuf' = appendLast(lastBuf, text)
        /\ Len(console') > Len(console)
        /\ console'[Len(console')] = text
        /\ \A e \in DOMAIN files : StreamNext(e) = StreamNow(e)
        /\ beforeFileBuf' = beforeFileBuf
        /\ lastWriteDate' = NoDate
        /\ fileWriter' = Nil

\* an emit that finds no file open, with logging active and a real file
\* destination, opens the file if the file system lets it
C16_Retries ==
  \A t \in Threads :
    ( /\ pc[t] = "loggerLocked"
      /\ mutex = Free
      /\ active
      /\ fileNamePattern = PatternFile
      /\ file = Nil ) =>
        \E opened \in BOOLEAN :
          loggerRun(LogState, logFuncName, frame[t].name, frame[t].level,
                    frame[t].message, opened).file # Nil

\* C16: an emit whose open fails returns all the same, with its line in the
\* ring buffer and on the console, nothing added to any file, the pre-open
\* buffer kept and the day stamp reset; the next emit tries the open again.
C16_FailedOpen == []C16_Retries /\ [][C16_FailedOpenStep]_vars

\* the first emit called openLogFile (its launch line is on the console)
\* but no file has its line; the second emit opened the file
C16_Witness ==
  /\ Len(console) = 3
  /\ console[1].kind = "launch"
  /\ console[1].tm = 1
  /\ console[2].tm = 1
  /\ console[3].tm = 2
  /\ file = [dt |-> DateStr[1], closed |-> FALSE]
  /\ StreamNow(DateStr[1]) = <<Banner(DateStr[1], 2), console[3]>>
  /\ lastBuf = <<console[2], console[3]>>

\* the step in which thread t, in exit, has logged its final line and goes
\* through the crash dump to the end of exit; a final line that passed the
\* level test was not cut short by Disable
ExitDumpStep(t) ==
  /\ pc[t] = "exitDump"
  /\ pc'[t] = "done"
  /\ frame[t].passed => frame[t].sawEnabled

\* the crash-dump file is left alone if the pre-open buffer is empty, and
\* else, if it can be opened at all, gets the lines of the buffer appended
\* in their order
C17_DumpStep ==
  /\ beforeFileBuf = <<>> => dump' = dump
  /\ beforeFileBuf # <<>> =>
       \/ dump' = dump
       \/ /\ dump'.exists
          /\ dump'.lines = dump.lines \o beforeFileBuf

\* C17 as stated: at shutdown with a non-empty pre-open buffer the buffered
\* lines go to the crash-dump file in emit order, and the "Log file closed"
\* line is among them whenever the level of the standard facility admits
\* INFO; an empty buffer leaves the crash-dump file untouched.
C17_DumpHasFinalLine ==
  [][ \A t \in Threads :
        ExitDumpStep(t) =>
          /\ C17_DumpStep
          /\ (beforeFileBuf # <<>> /\ INFO <= frame[t].T) =>
               /\ frame[t].logged # <<>>
               /\ frame[t].logged[1] \in Range(beforeFileBuf) ]_vars

\* C17 amended: the buffered lines go to the crash-dump file in emit order
\* if that file can be opened, and an empty buffer leaves it untouched.
\* The "Log file closed" line is in the buffer, and so in the dump, if the
\* level of the standard facility admits INFO, no file destination of any
\* kind is configured and the buffer has not run over its capacity; with a
\* destination configured, the buffer-only "-" included, it is not.
C17_DumpOfBuffer ==
  [][ \A t \in Threads :
        ExitDumpStep(t) =>
          /\ C17_DumpStep
          /\ ( /\ INFO <= frame[t].T
               /\ fileNamePattern = PatternUnset
               /\ Len(beforeFileBuf) <= beforeFileBufSize ) =>
                 /\ frame[t].logged # <<>>
                 /\ frame[t].logged[1].msg = "Log file closed"
                 /\ frame[t].logged[1] \in Range(beforeFileBuf)
          /\ (INFO <= frame[t].T /\ fileNamePattern # PatternUnset) =>
               /\ frame[t].logged # <<>>
               /\ frame[t].logged[1] \notin Range(beforeFileBuf) ]_vars

\* exit has dumped a pre-open buffer of an earlier line and the final line
C17_Witness ==
  \E t \in Threads :
    /\ pc[t] = "done"
    /\ frame[t].op = "exit"
    /\ dump.exists
    /\ Len(dump.lines) = 2
    /\ dump.lines = beforeFileBuf
    /\ dump.lines[1].msg = "hello"
    /\ dump.lines[2] = frame[t].logged[1]
    /\ dump.lines[2].msg = "Log file closed"

\* exit has dumped a pre-open buffer under the buffer-only destination: the
\* final line is in the ring buffer but not in the dump
C17_WitnessBufferOnly ==
  \E t \in Threads :
    /\ pc[t] = "done"
    /\ frame[t].op = "exit"
    /\ fileNamePattern = PatternBufferOnly
    /\ dump.exists
    /\ dump.lines = beforeFileBuf
    /\ frame[t].logged # <<>>
    /\ frame[t].logged[1] \notin Range(dump.lines)

\* thread t takes the step of logger that formats and stores a line
EmitStep(t) == pc[t] = "loggerLocked" /\ pc'[t] # "loggerLocked"

\* C18: once exit has run to its end, every emit still puts its line into
\* the ring buffer and on the console, and leaves the pre-open buffer, the
\* file handle and its writer, the day stamp, the files and the crash-dump
\* file as they are.
C18_InactiveStep ==
  \A t \in Threads :
    (EmitStep(t) /\ exited /\ ~active) =>
      LET text == lastBuf'[Len(lastBuf')]
      IN  /\ text = Format(frame[t].level, DateStr[today], clock + 1,
                           frame[t].name, logFuncName, frame[t].message)
          /\ lastBuf' = appendLast(lastBuf, text)
          /\ console' = Append(console, text)
          /\ beforeFileBuf' = beforeFileBuf
          /\ file' = file
          /\ fileWriter' = fileWriter
          /\ lastWriteDate' = lastWriteDate
          /\ files' = files
          /\ dump' = dump

C18_AfterShutdown == [][C18_InactiveStep]_vars

\* a line emitted after exit closed the open file: it is the newest of the
\* ring buffer and of the console and in no file, on a later day than the
\* closed file's
C18_Witness ==
  /\ exited
  /\ ~active
  /\ file # Nil
  /\ file.closed
  /\ fileNamePattern = PatternFile
  /\ Len(lastBuf) >= 2
  /\ lastBuf[Len(lastBuf) - 1].msg = "Log file closed"
  /\ lastBuf[Len(lastBuf)].msg = "hello"
  /\ lastBuf[Len(lastBuf)].dt # file.dt
  /\ console[Len(console)] = lastBuf[Len(lastBuf)]
  /\ \A d \in DOMAIN files :
       \A i \in 1..Len(files[d]) : files[d][i] # lastBuf[Len(lastBuf)]

\* with logging disabled, the step of a thread at the enabled test of logger
\* returns from logger with nothing logged, the logger state and the mutex
\* as they were; the steps of setLogLevel that would log its WARNING or INFO
\* line leave the logger state as it was
C19_DisabledStep ==
  ~enabled =>
    \A t \in Threads :
      /\ (pc[t] = "logger" /\ pc'[t] # "logger") =>
           /\ pc'[t] # "loggerLocked"
           /\ frame'[t].logged = <<>>
           /\ logVars' = logVars
           /\ mutex' = mutex
           /\ clock' = clock
      /\ (pc[t] \in {"setLogLevel", "alerts"} /\ pc'[t] # pc[t]) =>
           /\ frame'[t].logged = <<>>
           /\ logVars' = logVars
           /\ clock' = clock

\* with logging disabled, a thread at the enabled test of logger can return
\* whoever holds the mutex
C19_NoLock ==
  \A t \in Threads :
    (pc[t] = "logger" /\ ~enabled) =>
      ENABLED (logger(t) /\ pc'[t] # "loggerLocked")

\* C19: an emit that finds logging disabled is a no-op that takes no lock:
\* ring buffer, pre-open buffer, file state and console stay as they are;
\* so do they when a level change would log its WARNING or INFO line.
C19_DisabledNoOp == []C19_NoLock /\ [][C19_DisabledStep]_vars

\* with logging disabled and the mutex held by the other thread, a Message
\* that passed the level test has returned with nothing logged
C19_Witness ==
  \E t \in Threads :
    /\ ~enabled
    /\ pc[t] = "done"
    /\ frame[t].op = "Message"
    /\ frame[t].passed
    /\ ~frame[t].sawEnabled
    /\ frame[t].logged = <<>>
    /\ mutex \in Threads \ {t}
    /\ lastBuf # <<>>

\* with logging disabled a level has been changed and a level name
\* rejected, and neither has logged a line
C19_WitnessLevel ==
  \E t \in Threads :
    /\ ~enabled
    /\ pc[t] = "unlock"
    /\ InSetLogLevel(t)
    /\ frame[t].err \/ frame[t].newLevel # frame[t].T
    /\ frame[t].logged = <<>>
    /\ lastBuf = <<>>

(***************************************************************************)
(* SpecNames: a caller parses a level name with Str2Level and, if that     *)
(* succeeds, asks GetLogLevelName for the names of the level it got.       *)
(***************************************************************************)
\* the names of the table, and strings that are none of them
TableNames ==
  {levels[i].name : i \in 1..Len(levels)}
    \cup {levels[i].shortName : i \in 1..Len(levels)}
OtherNames ==
  {"", "bogus", "debug", "De", "INFO ", " ERR", "TRACE5", "T5", "?", "WARN",
   "EMERGENCY", "0", "ERROR", "info", "em", "TRACE"}

InitNames ==
  /\ InitPackage
  /\ \E s \in TableNames \cup OtherNames :
       /\ pc = [t \in Threads |-> IF t = "t1" THEN "Str2Level" ELSE "idle"]
       /\ frame = [t \in Threads |->
                     IF t = "t1"
                       THEN [Frame0 EXCEPT !.op = "Str2Level", !.levelName = s]
                       ELSE Frame0]

\* the caller's call of Str2Level (log.go 330-342)
RunStr2Level(t) ==
  /\ pc[t] = "Str2Level"
  /\ LET r == Str2Level(frame[t].levelName)
         fr == [frame[t] EXCEPT !.newLevel = r.level, !.err = ~r.ok]
     IN  IF r.ok THEN Goto(t, "GetLogLevelName", fr) ELSE Return(t, fr)
  /\ UNCHANGED <<regVars, subVars, enabled, active, logFuncName, cfgVars,
                 logVars, mutex, today, clock, exited>>

\* the caller's call of GetLogLevelName (log.go 358-360) on that level
RunGetLogLevelName(t) ==
  /\ pc[t] = "GetLogLevelName"
  /\ LET r == GetLogLevelName(frame[t].newLevel)
     IN  Return(t, [frame[t] EXCEPT !.short = r.short, !.long = r.long])
  /\ UNCHANGED <<regVars, subVars, enabled, active, logFuncName, cfgVars,
                 logVars, mutex, today, clock, exited>>

NextNames ==
  \E t \in Threads :
    \/ RunStr2Level(t)
    \/ RunGetLogLevelName(t)
    \/ Done(t)

SpecNames == InitNames /\ [][NextNames]_vars

\* C20: for a long or short name s of the table Str2Level succeeds, and the
\* pair GetLogLevelName gives for the level it returned has s as its short
\* or as its long name; for every other string Str2Level gives UNKNOWN and
\* no success.
C20_RoundTrip ==
  \A t \in Threads :
    LET fr == frame[t]
        inTable == \E i \in 1..Len(levels) :
                     fr.levelName = levels[i].name
                       \/ fr.levelName = levels[i].shortName
    IN  /\ (fr.op = "Str2Level" /\ pc[t] = "GetLogLevelName") =>
             inTable /\ ~fr.err
        /\ (fr.op = "Str2Level" /\ pc[t] = "done") =>
             IF inTable
               THEN /\ ~fr.err
                    /\ fr.short = fr.levelName \/ fr.long = fr.levelName
                    /\ \E i \in 1..Len(levels) :
                         /\ levels[i].code = fr.newLevel
                         /\ levels[i].shortName = fr.short
                         /\ levels[i].name = fr.long
               ELSE /\ fr.err
                    /\ fr.newLevel = UNKNOWN
                    /\ fr.short = ""
                    /\ fr.long = ""

\* the short name "DE" has come back in the pair of DEBUG
C20_Witness ==
  \E t \in Threads :
    /\ pc[t] = "done"
    /\ frame[t].op = "Str2Level"
    /\ frame[t].levelName = "DE"
    /\ frame[t].newLevel = DEBUG
    /\ frame[t].short = "DE"
    /\ frame[t].long = "DEBUG"

\* "debug" has been rejected
C20_WitnessOther ==
  \E t \in Threads :
    /\ pc[t] = "done"
    /\ frame[t].op = "Str2Level"
    /\ frame[t].levelName = "debug"
    /\ frame[t].err
    /\ frame[t].newLevel = UNKNOWN

(***************************************************************************)
(* CronLog (cronlog.go).  A text is a sequence of pieces: "%v" is the verb *)
(* fmt.Sprintf acts on, every other piece is literal text without '%'.     *)
(* A value is [type, s, json]: its Go type, what %v prints for it, and for *)
(* a time.Time its misc.DateTimeFormatJSON form.                           *)
(***************************************************************************)
\* the string a text is
RECURSIVE Flat(_)
Flat(text) == IF text = <<>> THEN "" ELSE Head(text) \o Flat(Tail(text))

StringValue(str) == [type |-> "string", s |-> str, json |-> ""]
IntValue(n) == [type |-> "int", s |-> ToString(n), json |-> ""]
TimeValue ==
  [type |-> "time.Time", s |-> "1970-01-01 00:01:00.123456789 +0000 UTC",
   json |-> "1970-01-01T00:01:00.123Z"]

\* the list "type=value, ..." fmt.Sprintf prints for arguments no verb used
RECURSIVE ExtraArgs(_)
ExtraArgs(args) ==
  IF args = <<>> THEN ""
  ELSE Head(args).type \o "=" \o Head(args).s
         \o (IF Len(args) > 1 THEN ", " ELSE "") \o ExtraArgs(Tail(args))

\* fmt.Sprintf(format, args...): each verb %v prints the next argument, or
\* %!v(MISSING) when none is left; arguments left at the end are listed as
\* %!(EXTRA ...)
RECURSIVE Sprintf(_, _)
Sprintf(format, args) ==
  IF format = <<>>
    THEN IF args = <<>> THEN <<>>
         ELSE <<"%!(EXTRA " \o ExtraArgs(args) \o ")">>
  ELSE IF Head(format) = "%v"
    THEN IF args = <<>>
           THEN <<"%!v(MISSING)">> \o Sprintf(Tail(format), args)
           ELSE <<Head(args).s>> \o Sprintf(Tail(format), Tail(args))
  ELSE <<Head(format)>> \o Sprintf(Tail(format), args)

\* the loop of CronLog.makeFmt (cronlog.go 69-80) from index i on, indices
\* counted from 0 as in the source: p[i2] beyond the end of p panics
RECURSIVE makeFmtLoop(_, _, _)
makeFmtLoop(p, i, fmt) ==
  IF i >= Len(p) THEN [panic |-> FALSE, fmt |-> fmt, p |-> p]
  ELSE LET i2 == i + 1
           fmt1 == fmt \o (IF i > 0 THEN <<", ">> ELSE <<>>)
                       \o <<"%v", "=", "%v">>
       IN  IF i2 >= Len(p) THEN [panic |-> TRUE, fmt |-> fmt1, p |-> p]
           ELSE makeFmtLoop(
                  IF p[i2 + 1].type = "time.Time"
                    THEN [p EXCEPT ![i2 + 1] = StringValue(p[i2 + 1].json)]
                    ELSE p,
                  i + 2, fmt1)

\* CronLog.makeFmt (cronlog.go 59-83): the format of the pairs, and p with
\* its time.Time values replaced in place
makeFmt(p) ==
  IF Len(p) = 0 THEN [panic |-> FALSE, fmt |-> <<>>, p |-> p]
  ELSE makeFmtLoop(p, 0, <<>>)

\* thread t is at the start of makeMsg with these arguments
InMakeMsg(t, err, msg, kv) ==
  /\ pc = [u \in Threads |-> IF u = t THEN "makeMsg" ELSE "idle"]
  /\ frame = [u \in Threads |->
                IF u = t
                  THEN [Frame0 EXCEPT !.op = "makeMsg", !.cronErr = err,
                                      !.msg = msg, !.keysAndValues = kv,
                                      !.kv0 = kv]
                  ELSE Frame0]

\* CronLog.makeMsg up to its call of makeFmt (cronlog.go 30-45)
makeMsgHead(t) ==
  /\ pc[t] = "makeMsg"
  /\ LET fr == frame[t]
         o1 == IF ~fr.cronErr.isNil THEN fr.cronErr.text ELSE <<>>
         o2 == IF Flat(fr.msg) # ""
                 THEN o1 \o (IF Flat(o1) # "" THEN <<": ">> ELSE <<>>) \o fr.msg
                 ELSE o1
     IN  Goto(t, "makeFmt", [fr EXCEPT !.out = o2])
  /\ UNCHANGED <<regVars, subVars, enabled, active, logFuncName, cfgVars,
                 logVars, mutex, today, clock, exited>>

\* the call of makeFmt (cronlog.go 45, 59-83); a panic ends the thread
callMakeFmt(t) ==
  /\ pc[t] = "makeFmt"
  /\ LET fr == frame[t]
         r == makeFmt(fr.keysAndValues)
     IN  IF r.panic
           THEN Goto(t, "panic", fr)
           ELSE Goto(t, "makeMsgOut",
                     [fr EXCEPT !.kvFmt = r.fmt, !.keysAndValues = r.p])
  /\ UNCHANGED <<regVars, subVars, enabled, active, logFuncName, cfgVars,
                 logVars, mutex, today, clock, exited>>

\* the rest of CronLog.makeMsg (cronlog.go 46-54)
makeMsgOut(t) ==
  /\ pc[t] = "makeMsgOut"
  /\ LET fr == frame[t]
         o3 == IF Flat(fr.kvFmt) # ""
                 THEN IF Flat(fr.out) = "" THEN fr.out \o fr.kvFmt
                      ELSE fr.out \o <<" (">> \o fr.kvFmt \o <<")">>
                 ELSE fr.out
     IN  Return(t, [fr EXCEPT !.out = o3,
                              !.result = Sprintf(<<"[cron] ">> \o o3,
                                                 fr.keysAndValues)])
  /\ UNCHANGED <<regVars, subVars, enabled, active, logFuncName, cfgVars,
                 logVars, mutex, today, clock, exited>>

(***************************************************************************)
(* SpecCron: makeMsg is called with every combination of an error, a       *)
(* message and a list of keys and values.                                  *)
(***************************************************************************)
NoError == [isNil |-> TRUE, text |-> <<>>]
ErrorOf(text) == [isNil |-> FALSE, text |-> text]
ErrInputs ==
  {NoError, ErrorOf(<<"Something went wrong">>), ErrorOf(<<>>),
   ErrorOf(<<"open ", "%v", " failed">>)}
MsgInputs == {<<>>, <<"Test message">>, <<"rate ", "%v">>}
KvInputs ==
  {<<>>,
   <<StringValue("p1")>>,
   <<StringValue("p1"), StringValue("v1")>>,
   <<StringValue("p1"), StringValue("v1"), StringValue("p2"), IntValue(3),
     StringValue("p3"), TimeValue>>}

InitCron ==
  /\ InitPackage
  /\ \E err \in ErrInputs, msg \in MsgInputs, kv \in KvInputs :
       InMakeMsg("t1", err, msg, kv)

NextCron ==
  \E t \in Threads :
    \/ makeMsgHead(t)
    \/ callMakeFmt(t)
    \/ makeMsgOut(t)
    \/ Done(t)

SpecCron == InitCron /\ [][NextCron]_vars

\* the pairs "key=value" of kv joined by ", ", a time.Time value in its JSON
\* form
RECURSIVE Pairs(_)
Pairs(kv) ==
  IF Len(kv) < 2 THEN ""
  ELSE kv[1].s \o "=" \o (IF kv[2].type = "time.Time" THEN kv[2].json
                          ELSE kv[2].s)
         \o (IF Len(kv) > 2 THEN ", " ELSE "")
         \o Pairs(SubSeq(kv, 3, Len(kv)))

\* what makeMsg is said to return
MakeMsgExpected(err, msg, kv) ==
  LET e == IF err.isNil THEN "" ELSE Flat(err.text)
      m == Flat(msg)
      head == e \o (IF e # "" /\ m # "" THEN ": " ELSE "") \o m
      pairs == Pairs(kv)
  IN  "[cron] " \o head
        \o (IF pairs = "" THEN ""
            ELSE IF head = "" THEN pairs
            ELSE " (" \o pairs \o ")")

\* C21: makeMsg, called with keys and values in pairs, returns "[cron] ",
\* the error text if there is an error, the message if it is not empty,
\* ": " between the two if both are there, and the pairs key=value joined by
\* ", ", in " (" and ")" if something precedes them; "[cron] " alone if
\* there is nothing.
C21_MakeMsg ==
  \A t \in Threads :
    LET fr == frame[t]
    IN  ( /\ fr.op = "makeMsg"
          /\ pc[t] \in {"done", "panic"}
          /\ Len(fr.kv0) % 2 = 0 ) =>
            /\ pc[t] = "done"
            /\ Flat(fr.result) =
                 MakeMsgExpected(fr.cronErr, fr.msg, fr.kv0)

\* the expectations of TestCronlog: in its eight cases, which have no '%'
\* in the error text or the message, makeMsg returns what the test expects
TestCronlog ==
  LET err == ErrorOf(<<"Something went wrong">>)
      msg == <<"Test message">>
      kv == <<StringValue("p1"), StringValue("v1"), StringValue("p2"),
              IntValue(3), StringValue("p3"), TimeValue>>
      kvText == "p1=v1, p2=3, p3=1970-01-01T00:01:00.123Z"
      Case(e, m, k, expect) ==
        \A t \in Threads :
          ( /\ frame[t].op = "makeMsg" /\ pc[t] = "done"
            /\ frame[t].cronErr = e /\ frame[t].msg = m
            /\ frame[t].kv0 = k ) => Flat(frame[t].result) = expect
  IN  /\ \A t \in Threads :
           (frame[t].cronErr \in {NoError, err} /\ frame[t].msg \in {<<>>, msg}
              /\ frame[t].kv0 \in {<<>>, kv}) => pc[t] # "panic"
      /\ Case(NoError, <<>>, <<>>, "[cron] ")
      /\ Case(NoError, <<>>, kv, "[cron] " \o kvText)
      /\ Case(NoError, msg, <<>>, "[cron] Test message")
      /\ Case(NoError, msg, kv, "[cron] Test message (" \o kvText \o ")")
      /\ Case(err, <<>>, <<>>, "[cron] Something went wrong")
      /\ Case(err, <<>>, kv, "[cron] Something went wrong (" \o kvText \o ")")
      /\ Case(err, msg, <<>>, "[cron] Something went wrong: Test message")
      /\ Case(err, msg, kv,
              "[cron] Something went wrong: Test message (" \o kvText \o ")")

(***************************************************************************)
(* logger(true, ...), exit and the background flusher step by step, for    *)
(* the threads that do not take the global mutex: each step is one         *)
(* stretch of code between two points where such a thread can see or       *)
(* change the logger's state.                                              *)
(***************************************************************************)
\* logger(true, ...) from mutex.Lock() to its test of active
\* (log.go 519-560): the line is formatted
loggerBegin(t) ==
  /\ pc[t] = "loggerLocked"
  /\ mutex = Free
  /\ mutex' = t
  /\ LET fr == frame[t]
         dt == DateStr[today]
         tm == clock + 1
         text == Format(fr.level, dt, tm, fr.name, logFuncName, fr.message)
     IN  Goto(t, IF active THEN "loggerPersist" ELSE "loggerRecord",
              [fr EXCEPT !.loggerLocals =
                 [text |-> text, dt |-> dt, tm |-> tm, active |-> active]])
  /\ clock' = clock + 1
  /\ UNCHANGED <<regVars, subVars, enabled, active, logFuncName, cfgVars,
                 logVars, today, exited>>

\* the branches of logger on the file destination up to the write
\* (log.go 561-572, 431-440): the line goes to the pre-open buffer, or the
\* open file is closed for a rotation
loggerPersist(t) ==
  /\ pc[t] = "loggerPersist"
  /\ LET fr == frame[t]
         loc == fr.loggerLocals
     IN  IF fileNamePattern = PatternUnset
           THEN /\ StoreLogState([LogState EXCEPT !.beforeFileBuf =
                                    appendBeforeFile(@, loc.text)])
                /\ Goto(t, "loggerRecord", fr)
         ELSE IF fileNamePattern # PatternBufferOnly
           THEN IF NeedsOpen(LogState, loc.dt)
                  THEN /\ StoreLogState(openLogFileClose(LogState))
                       /\ Goto(t, "openLogFile", fr)
                  ELSE /\ UNCHANGED logVars
                       /\ Goto(t, "loggerWrite", fr)
         ELSE /\ UNCHANGED logVars
              /\ Goto(t, "loggerRecord", fr)
  /\ UNCHANGED <<regVars, subVars, enabled, active, logFuncName, cfgVars,
                 mutex, today, clock, exited>>

\* openLogFile from os.OpenFile on (log.go 442-510)
openLogFileRest(t) ==
  /\ pc[t] = "openLogFile"
  /\ \E opened \in BOOLEAN :
       LET loc == frame[t].loggerLocals
       IN  StoreLogState(openLogFileOpen(LogState, loc.dt, loc.tm, opened))
  /\ Goto(t, "loggerWrite", frame[t])
  /\ UNCHANGED <<regVars, subVars, enabled, active, logFuncName, cfgVars,
                 mutex, today, clock, exited>>

\* logger after openLogFile (log.go 574-579)
loggerWrite(t) ==
  /\ pc[t] = "loggerWrite"
  /\ LET loc == frame[t].loggerLocals
     IN  StoreLogState(afterOpen(LogState, loc.text, loc.dt))
  /\ Goto(t, "loggerRecord", frame[t])
  /\ UNCHANGED <<regVars, subVars, enabled, active, logFuncName, cfgVars,
                 mutex, today, clock, exited>>

\* the end of logger(true, ...) (log.go 583-589) and the deferred
\* mutex.Unlock()
loggerRecord(t) ==
  /\ pc[t] = "loggerRecord"
  /\ LET fr == frame[t]
         S == recordLine(LogState, fr.loggerLocals.text)
     IN  /\ StoreLogState(S)
         /\ Return(t, [fr EXCEPT !.logged = Logged(fr, S)])
  /\ mutex' = Free
  /\ UNCHANGED <<regVars, subVars, enabled, active, logFuncName, cfgVars,
                 today, clock, exited>>

\* writerFlush, its test of fileWriter (log.go 235)
writerFlushCheck(t) ==
  /\ pc[t] = "writerFlush"
  /\ LET fr == [frame[t] EXCEPT !.sawWriter = (fileWriter # Nil)]
     IN  IF fileWriter # Nil THEN Goto(t, "writerFlushLocked", fr)
         ELSE Return(t, fr)
  /\ UNCHANGED <<regVars, subVars, enabled, active, logFuncName, cfgVars,
                 logVars, mutex, today, clock, exited>>

\* writerFlushLocked that drops the writer it has flushed
writerFlushLockedDrop(t) ==
  /\ pc[t] = "writerFlushLocked"
  /\ IF fileWriter = Nil
       THEN /\ Goto(t, "panic", frame[t])
            /\ UNCHANGED logVars
       ELSE /\ StoreLogState([BufFlush(LogState) EXCEPT !.fileWriter = Nil])
            /\ Return(t, frame[t])
  /\ UNCHANGED <<regVars, subVars, enabled, active, logFuncName, cfgVars,
                 mutex, today, clock, exited>>

\* writerFlush from fileWriterMutex.Lock() to Unlock() (log.go 236-238):
\* Flush on the writer fileWriter now is; on nil it panics
writerFlushLocked(t) ==
  /\ pc[t] = "writerFlushLocked"
  /\ IF fileWriter = Nil
       THEN /\ Goto(t, "panic", frame[t])
            /\ UNCHANGED logVars
       ELSE /\ StoreLogState(BufFlush(LogState))
            /\ Return(t, frame[t])
  /\ UNCHANGED <<regVars, subVars, enabled, active, logFuncName, cfgVars,
                 mutex, today, clock, exited>>

\* the crash dump of exit (log.go 245-253); dumped is the outcome of
\* os.OpenFile on the crash-dump file
exitDumpLines(t) ==
  /\ pc[t] = "exitDump"
  /\ \E dumped \in BOOLEAN : StoreLogState(dumpLines(LogState, dumped))
  /\ Goto(t, "exitInactive", frame[t])
  /\ UNCHANGED <<regVars, subVars, enabled, active, logFuncName, cfgVars,
                 mutex, today, clock, exited>>

\* "active = false" of exit and its call of writerFlush (log.go 255-257)
exitInactive(t) ==
  /\ pc[t] = "exitInactive"
  /\ active' = FALSE
  /\ Goto(t, "writerFlush", [frame[t] EXCEPT !.stack = <<"exitClose">> \o @])
  /\ UNCHANGED <<regVars, subVars, enabled, logFuncName, cfgVars, logVars,
                 mutex, today, clock, exited>>

\* the end of exit (log.go 259-261): the handle is closed
exitClose(t) ==
  /\ pc[t] = "exitClose"
  /\ StoreLogState(IF file # Nil THEN [LogState EXCEPT !.file.closed = TRUE]
                   ELSE LogState)
  /\ Return(t, frame[t])
  /\ UNCHANGED <<regVars, subVars, enabled, active, logFuncName, cfgVars,
                 mutex, today, clock, exited>>

\* flusherWake that has no test for the first wake
flusherWakeNoFirst(t) ==
  /\ pc[t] = "Sleep"
  /\ LET dt == DateStr[today]
         fr == [frame[t] EXCEPT !.dt = dt, !.logged = <<>>,
                                !.sawEnabled = FALSE]
     IN  IF dt # fr.lastFlushDate
           THEN Goto(t, "MessageEx",
                     [fr EXCEPT !.f = stdFacility, !.L = -INFO,
                                !.message = "Have a nice day",
                                !.stack = <<"flusherStamp">>])
           ELSE Goto(t, "flusherStamp", fr)
  /\ UNCHANGED <<regVars, subVars, enabled, active, logFuncName, cfgVars,
                 logVars, mutex, today, clock, exited>>

\* misc.Sleep returns true and the flusher compares the dates
\* (log.go 277-283): the date has changed since the last wake and it calls
\* Message(-1*INFO, "Have a nice day"), or it goes on; logged is the lines
\* of this wake
flusherWake(t) ==
  /\ pc[t] = "Sleep"
  /\ LET dt == DateStr[today]
         fr == [frame[t] EXCEPT !.dt = dt, !.logged = <<>>,
                                !.sawEnabled = FALSE]
     IN  IF fr.lastFlushDate # "" /\ dt # fr.lastFlushDate
           THEN Goto(t, "MessageEx",
                     [fr EXCEPT !.f = stdFacility, !.L = -INFO,
                                !.message = "Have a nice day",
                                !.stack = <<"flusherStamp">>])
           ELSE Goto(t, "flusherStamp", fr)
  /\ UNCHANGED <<regVars, subVars, enabled, active, logFuncName, cfgVars,
                 logVars, mutex, today, clock, exited>>

\* "lastFlushDate = dt" and the call of writerFlush (log.go 284-285)
flusherStamp(t) ==
  /\ pc[t] = "flusherStamp"
  /\ Goto(t, "writerFlush",
          [frame[t] EXCEPT !.lastFlushDate = frame[t].dt,
                           !.stack = <<"Sleep">>])
  /\ UNCHANGED <<regVars, subVars, enabled, active, logFuncName, cfgVars,
                 logVars, mutex, today, clock, exited>>

\* misc.Sleep returns false, the shutdown has interrupted it, and the loop
\* ends (log.go 277-278)
flusherStop(t) ==
  /\ pc[t] = "Sleep"
  /\ exited
  /\ Goto(t, "stopped", frame[t])
  /\ UNCHANGED <<regVars, subVars, enabled, active, logFuncName, cfgVars,
                 logVars, mutex, today, clock, exited>>

(***************************************************************************)
(* SpecFlusher: thread t2 is the background flusher; thread t1 emits on    *)
(* the standard facility, configures the file destination and shuts the    *)
(* process down, while days pass.                                          *)
(***************************************************************************)
InitFlusher ==
  /\ InitPackage
  /\ pc = [t \in Threads |-> IF t = "t2" THEN "Sleep" ELSE "idle"]
  /\ frame = [t \in Threads |->
                IF t = "t2" THEN [Frame0 EXCEPT !.op = "writerFlusher"]
                ELSE Frame0]

StepFlusher(t) ==
  \/ Done(t)
  \/ MessageEx(t)
  \/ logger(t)
  \/ loggerBegin(t)
  \/ loggerPersist(t)
  \/ openLogFileRest(t)
  \/ loggerWrite(t)
  \/ loggerRecord(t)
  \/ writerFlushCheck(t)
  \/ writerFlushLocked(t)
  \/ exitDumpLines(t)
  \/ exitInactive(t)
  \/ exitClose(t)
  \/ flusherWake(t)
  \/ flusherStamp(t)
  \/ flusherStop(t)

NextFlusher ==
  \/ \E t \in Threads : StepFlusher(t)
  \/ clock < MaxEmit /\ Message("t1", StdFacilityName, INFO)
  \/ \E d \in DirectoryInputs, b \in BufSizeInputs :
       clock < MaxEmit /\ SetFile("t1", d, b)
  \/ clock < MaxEmit /\ exit("t1")
  \/ clock < MaxEmit /\ Disable("t1")
  \/ NextDay

SpecFlusher == InitFlusher /\ [][NextFlusher]_vars

\* the goroutine init() has started on writerFlusher (log.go 177)
Flusher == "t2"

\* the line is the heartbeat of the flusher
IsHeartbeat(line) ==
  /\ line.kind = "line"
  /\ line.msg = "Have a nice day"
  /\ line.lvl = LevelName(INFO)

\* at this wake the date differs from the date of the wake before
HeartbeatDue ==
  /\ frame[Flusher].lastFlushDate # ""
  /\ frame[Flusher].dt # frame[Flusher].lastFlushDate

\* when the flusher comes to "lastFlushDate = dt", it has emitted the
\* heartbeat if the date differs from the remembered one and logging was
\* enabled, and otherwise nothing
C22_HeartbeatWhenDue ==
  pc[Flusher] = "flusherStamp" =>
    LET fr == frame[Flusher]
    IN  /\ (HeartbeatDue /\ fr.sawEnabled) =>
             (Len(fr.logged) = 1 /\ IsHeartbeat(fr.logged[1]))
        /\ ~HeartbeatDue => fr.logged = <<>>

\* the remembered date changes only at "lastFlushDate = dt", to the date of
\* this wake, and writerFlush is called next; the flusher sleeps again only
\* when writerFlush has returned; once the sleep was interrupted nothing
\* more happens in the flusher
C22_WakeStep ==
  LET fr == frame[Flusher]
      q == pc[Flusher]
  IN  /\ fr.lastFlushDate' # fr.lastFlushDate =>
           (q = "flusherStamp" /\ fr.lastFlushDate' = fr.dt)
      /\ (q = "flusherStamp" /\ pc'[Flusher] # q) =>
           (pc'[Flusher] = "writerFlush" /\ fr.lastFlushDate' = fr.dt)
      /\ (q # "Sleep" /\ pc'[Flusher] = "Sleep") =>
           q \in {"writerFlush", "writerFlushLocked"}
      /\ (q = "writerFlushLocked" /\ pc'[Flusher] = "Sleep") =>
           (~file.closed =>
              /\ files'[file.dt] = files[file.dt] \o fileWriter.buf
              /\ fileWriter'.buf = <<>>)
      /\ (q = "Sleep" /\ pc'[Flusher] = "stopped") =>
           (exited /\ frame' = frame /\ UNCHANGED <<logVars, mutex>>)
      /\ q = "stopped" => (pc'[Flusher] = q /\ fr' = fr)

\* C22: on each wake of the flusher the heartbeat is emitted exactly when
\* the date differs from the date remembered at the wake before, never on
\* the first wake; the remembered date is updated only after that, and the
\* buffered writer is flushed on every wake; the loop ends as soon as the
\* sleep reports the interruption by the shutdown.
C22_Flusher == [](C22_HeartbeatWhenDue) /\ [][C22_WakeStep]_vars

\* the flusher has emitted the heartbeat on a wake after midnight
C22_Witness ==
  /\ pc[Flusher] = "flusherStamp"
  /\ HeartbeatDue
  /\ Len(frame[Flusher].logged) = 1

\* the flusher has stopped after the shutdown
C22_WitnessStopped == pc[Flusher] = "stopped"

\* the step is one of the flusher
FlusherStep == pc'[Flusher] # pc[Flusher] \/ frame'[Flusher] # frame[Flusher]

\* the flusher is in its call Message(-1*INFO, "Have a nice day")
InHeartbeat ==
  pc[Flusher] \in {"MessageEx", "logger", "loggerLocked", "loggerPersist",
                   "openLogFile", "loggerWrite", "loggerRecord"}

\* C25 as stated: every step of the flusher leaves the ring buffer, the
\* pre-open buffer, the file handle, the day stamp and every level
\* unchanged and does not take the global mutex.
C25_FlusherFrame ==
  [][FlusherStep =>
       /\ UNCHANGED <<lastBuf, beforeFileBuf, file, lastWriteDate, objs>>
       /\ mutex' = mutex]_vars

C25_QuietStep ==
  (FlusherStep /\ ~InHeartbeat) =>
    /\ UNCHANGED <<lastBuf, beforeFileBuf, file, lastWriteDate, objs,
                   facilities, mutex, console, dump, firstTime, cfgVars>>
    /\ (fileWriter = Nil) = (fileWriter' = Nil)
    /\ fileWriter # Nil => fileWriter'.size = fileWriter.size
    /\ \A d \in DOMAIN files :
         StreamOf(files', file', fileWriter', d)
           = StreamOf(files, file, fileWriter, d)

C25_HeartbeatStep ==
  (FlusherStep /\ InHeartbeat) =>
    /\ UNCHANGED <<objs, facilities, cfgVars>>
    /\ logVars' # logVars => (mutex = Flusher \/ mutex' = Flusher)

\* C25: every step of the flusher outside its heartbeat leaves the ring
\* buffer, the pre-open buffer, the file handle, the day stamp and every
\* level unchanged, does not take the global mutex, and moves lines from
\* the writer's buffer to its file at most; the heartbeat is an emit like
\* any other: it changes no level and changes the logger's state only
\* while it holds the global mutex.
C25_FlusherFrameButHeartbeat ==
  [][C25_QuietStep /\ C25_HeartbeatStep]_vars

\* the flusher has flushed lines of the writer into the file
C25_Witness ==
  /\ pc[Flusher] = "Sleep"
  /\ frame[Flusher].sawWriter
  /\ fileWriter # Nil /\ fileWriter.buf = <<>>
  /\ file # Nil /\ Len(files[file.dt]) > 1

\* the heartbeat of the flusher is the newest line of the ring buffer
C25_WitnessHeartbeat ==
  /\ pc[Flusher] = "flusherStamp"
  /\ lastBuf # <<>>
  /\ IsHeartbeat(lastBuf[Len(lastBuf)])

\* C27: writerFlush never calls Flush on a nil writer: no thread panics in
\* writerFlush.
C27_FlushOnCheckedWriter ==
  \A t \in Threads :
    ~(pc[t] = "panic" /\ frame[t].op \in {"writerFlusher", "exit"})

(***************************************************************************)
(* Reading the levels.                                                     *)
(***************************************************************************)
\* Facility.CurrentLogLevel (log.go 744-747) on the facility registered as
\* n: f.level is read without the mutex
CurrentLogLevel(t, n) ==
  /\ pc[t] = "idle"
  /\ n \in DOMAIN facilities
  /\ Goto(t, "done",
          [Frame0 EXCEPT !.op = "CurrentLogLevel", !.f = facilities[n],
                         !.name = n, !.level = objs[facilities[n]].level])
  /\ UNCHANGED <<regVars, subVars, enabled, active, logFuncName, cfgVars,
                 logVars, mutex, today, clock, exited>>

\* Facility.CurrentLogLevelEx (log.go 749-754)
CurrentLogLevelEx(t, n) ==
  /\ pc[t] = "idle"
  /\ n \in DOMAIN facilities
  /\ LET level == objs[facilities[n]].level
         names == GetLogLevelName(level)
     IN  Goto(t, "done",
              [Frame0 EXCEPT !.op = "CurrentLogLevelEx", !.f = facilities[n],
                             !.name = n, !.level = level,
                             !.short = names.short, !.long = names.long])
  /\ UNCHANGED <<regVars, subVars, enabled, active, logFuncName, cfgVars,
                 logVars, mutex, today, clock, exited>>

\* CurrentLogLevelOfAll (log.go 655-665), from mutex.Lock() to the deferred
\* mutex.Unlock()
CurrentLogLevelOfAll(t) ==
  /\ pc[t] = "idle"
  /\ mutex = Free
  /\ Goto(t, "done",
          [Frame0 EXCEPT !.op = "CurrentLogLevelOfAll",
                         !.list = [n \in DOMAIN facilities |->
                                     objs[facilities[n]].level]])
  /\ UNCHANGED <<regVars, subVars, enabled, active, logFuncName, cfgVars,
                 logVars, mutex, today, clock, exited>>

(***************************************************************************)
(* SpecThreshold: thread t1 emits on the standard facility and reads its   *)
(* level while thread t2 sets the level and subscribes callbacks.          *)
(***************************************************************************)
StepThreshold(t) ==
  \/ Done(t)
  \/ MessageEx(t)
  \/ logger(t)
  \/ loggerLocked(t)
  \/ setLogLevel(t)
  \/ \E id \in 1..MaxSubscribers : alert(t, id)
  \/ storeLevel(t)
  \/ unlock(t)

ThresholdLevelInputs == {INFO, ERR}
ThresholdNameInputs == {"ERR", "DE"}

NextThreshold ==
  \/ \E t \in Threads : StepThreshold(t)
  \/ \E L \in ThresholdLevelInputs :
       clock < MaxEmit /\ Message("t1", StdFacilityName, L)
  \/ clock < MaxEmit /\ CurrentLogLevel("t1", StdFacilityName)
  \/ clock < MaxEmit /\ CurrentLogLevelEx("t1", StdFacilityName)
  \/ clock < MaxEmit /\ CurrentLogLevelOfAll("t1")
  \/ \E l \in ThresholdNameInputs :
       clock < MaxEmit /\ SetLogLevel("t2", StdFacilityName, l, FuncNameModeNone)
  \/ clock < MaxEmit /\ AddAlertFunc("t2")

SpecThreshold == Init /\ [][NextThreshold]_vars

\* C23: a message of an emit is appended only if it passes the threshold
\* the facility has when it is appended: none that was admitted against an
\* older, wider threshold is appended after a stricter one has been stored.
C23_FilterInCriticalSection ==
  [][\A t \in Threads :
       ( /\ pc[t] = "loggerLocked"
         /\ pc'[t] # "loggerLocked"
         /\ frame[t].op = "Message" ) =>
           frame[t].L <= objs[frame[t].f].level]_vars

\* a subscriber has been told that facility f goes from old to a new level
\* that is not yet stored
Notified(f, old) ==
  \E u \in Threads :
    /\ pc[u] = "alerts"
    /\ frame[u].f = f
    /\ frame[u].alerts # <<>>
    /\ frame[u].oldLevel = old

\* thread t reads the level of a facility in this step
ReadsLevel(t) ==
  /\ pc[t] = "idle"
  /\ pc'[t] = "done"
  /\ frame'[t].op \in {"CurrentLogLevel", "CurrentLogLevelEx"}

\* C24: no reader of a level and no filter of an emit sees the facility at
\* its old level once a subscriber has been told of the new one.
C24_NoIntermediateLevel ==
  [][\A t \in Threads :
       /\ ReadsLevel(t) => ~Notified(frame'[t].f, frame'[t].level)
       /\ (pc'[t] = "done" /\ frame'[t].op = "CurrentLogLevelOfAll") =>
            \A n \in DOMAIN frame'[t].list :
              ~Notified(facilities[n], frame'[t].list[n])
       /\ (pc[t] = "MessageEx" /\ pc'[t] # "MessageEx") =>
            ~Notified(frame'[t].f, frame'[t].T)]_vars

\* the day stamp is the date in the name of the file the handle is for, and
\* empty when there is no handle
C26_Stamp ==
  /\ file # Nil => lastWriteDate = file.dt
  /\ file = Nil => lastWriteDate = NoDate

\* an emit with a real file destination that ends with a file open has the
\* handle and the day stamp of the date of its line and its line at the end
\* of the stream of that file; one that ends with no file open leaves the
\* day stamp empty; the stream of no other date changes
C26_EmitStep ==
  FileEmit =>
    LET text == lastBuf'[Len(lastBuf')]
        d == text.dt
    IN  /\ file' # Nil =>
             /\ file'.dt = d
             /\ lastWriteDate' = d
             /\ Len(StreamNext(d)) > Len(StreamNow(d))
             /\ StreamNext(d)[Len(StreamNext(d))] = text
        /\ file' = Nil => lastWriteDate' = NoDate
        /\ \A e \in DOMAIN files : e # d => StreamNext(e) = StreamNow(e)

\* C26: whenever an emit has completed with a file open, the day stamp is
\* the date in the name of the open file, and every line emitted while a
\* real file destination is configured is written to the file of its own
\* date and to no file of another date; when no file is open after an emit
\* the day stamp is empty.
C26_FileOfOwnDate == [](C26_Stamp) /\ [][C26_EmitStep]_vars

\* lines of two days have been written, each to the file of its day, and
\* the file of the second day is open
C26_Witness ==
  /\ file # Nil /\ file.dt = DateStr[2] /\ lastWriteDate = DateStr[2]
  /\ \E i \in 1..Len(StreamNow(DateStr[1])) :
       /\ StreamNow(DateStr[1])[i].kind = "line"
       /\ StreamNow(DateStr[1])[i].dt = DateStr[1]
  /\ \E i \in 1..Len(StreamNow(DateStr[2])) :
       /\ StreamNow(DateStr[2])[i].kind = "line"
       /\ StreamNow(DateStr[2])[i].dt = DateStr[2]

\* after a file had been written the next open failed: no file is open and
\* the day stamp is empty
C26_WitnessNoFile ==
  /\ file = Nil /\ lastWriteDate = NoDate
  /\ files[DateStr[1]] # <<>>
  /\ today = 2

(***************************************************************************)
(* Alert callbacks that call back into the package.  The calls that take   *)
(* the global mutex are two steps here: the call, which brings the thread  *)
(* to mutex.Lock(), and the locked body.                                   *)
(***************************************************************************)
\* the threads waiting in AddAlertFunc for the mutex
AddsPending == Cardinality({u \in Threads : pc[u] = "AddAlertFunc"})

\* AddAlertFunc is called (log.go 365-366)
CallAddAlertFunc(t) ==
  /\ pc[t] = "idle"
  /\ alertSubscriberID + AddsPending < MaxSubscribers
  /\ Goto(t, "AddAlertFunc", [Frame0 EXCEPT !.op = "AddAlertFunc"])
  /\ UNCHANGED <<regVars, subVars, enabled, active, logFuncName, cfgVars,
                 logVars, mutex, today, clock, exited>>

\* AddAlertFunc from mutex.Lock() to mutex.Unlock() (log.go 366-371)
AddAlertFuncLocked(t) ==
  /\ pc[t] = "AddAlertFunc"
  /\ mutex = Free
  /\ alertSubscriberID' = alertSubscriberID + 1
  /\ alertSubscribers' = alertSubscribers \cup {alertSubscriberID + 1}
  /\ Return(t, [frame[t] EXCEPT !.id = alertSubscriberID + 1])
  /\ UNCHANGED <<regVars, enabled, active, logFuncName, cfgVars, logVars,
                 mutex, today, clock, exited>>

\* DelAlertFunc is called (log.go 375-376)
CallDelAlertFunc(t, id) ==
  /\ pc[t] = "idle"
  /\ Goto(t, "DelAlertFunc",
          [Frame0 EXCEPT !.op = "DelAlertFunc", !.id = id])
  /\ UNCHANGED <<regVars, subVars, enabled, active, logFuncName, cfgVars,
                 logVars, mutex, today, clock, exited>>

\* DelAlertFunc from mutex.Lock() to mutex.Unlock() (log.go 376-379)
DelAlertFuncLocked(t) ==
  /\ pc[t] = "DelAlertFunc"
  /\ mutex = Free
  /\ alertSubscribers' = alertSubscribers \ {frame[t].id}
  /\ Return(t, frame[t])
  /\ UNCHANGED <<regVars, alertSubscriberID, enabled, active, logFuncName,
                 cfgVars, logVars, mutex, today, clock, exited>>

\* CurrentLogLevelOfAll is called (log.go 655-656)
CallCurrentLogLevelOfAll(t) ==
  /\ pc[t] = "idle"
  /\ Goto(t, "CurrentLogLevelOfAll",
          [Frame0 EXCEPT !.op = "CurrentLogLevelOfAll"])
  /\ UNCHANGED <<regVars, subVars, enabled, active, logFuncName, cfgVars,
                 logVars, mutex, today, clock, exited>>

\* CurrentLogLevelOfAll from mutex.Lock() to the deferred mutex.Unlock()
\* (log.go 656-664)
CurrentLogLevelOfAllLocked(t) ==
  /\ pc[t] = "CurrentLogLevelOfAll"
  /\ mutex = Free
  /\ Return(t, [frame[t] EXCEPT !.list = [n \in DOMAIN facilities |->
                                            objs[facilities[n]].level]])
  /\ UNCHANGED <<regVars, subVars, enabled, active, logFuncName, cfgVars,
                 logVars, mutex, today, clock, exited>>

\* what a subscriber does when it is called
CallbackBodies ==
  {"return", "Message", "CurrentLogLevelOfAll", "AddAlertFunc", "DelAlertFunc"}

\* one turn of the loop over alertSubscribers (log.go 787-789) with a
\* callback that calls the package: callback id is called and returns at
\* once, or emits a DEBUG message on the standard facility, or calls
\* CurrentLogLevelOfAll, AddAlertFunc or DelAlertFunc of itself; saved is
\* what setLogLevel holds in its locals during the call
alertCall(t, id, body) ==
  /\ pc[t] = "alerts"
  /\ id \in frame[t].pending
  /\ body = "AddAlertFunc" => alertSubscriberID + AddsPending < MaxSubscribers
  /\ LET fr == frame[t]
         call == [id |-> id, facility |-> objs[fr.f].name,
                  old |-> fr.oldLevel, new |-> fr.newLevel,
                  stored |-> objs[fr.f].level, holder |-> mutex]
         fr1 == [fr EXCEPT !.pending = @ \ {id},
                           !.alerts = Append(@, call),
                           !.saved = [f |-> fr.f, name |-> fr.name,
                                      L |-> fr.L, level |-> fr.level,
                                      T |-> fr.T, passed |-> fr.passed,
                                      message |-> fr.message],
                           !.stack = <<"alertReturn">> \o @]
     IN  IF body = "return" THEN Goto(t, "alertReturn", fr1)
         ELSE IF body = "Message"
           THEN Goto(t, "MessageEx",
                     [fr1 EXCEPT !.f = stdFacility, !.L = DEBUG,
                                 !.message = "level changed"])
         ELSE IF body = "DelAlertFunc"
           THEN Goto(t, body, [fr1 EXCEPT !.id = id])
         ELSE Goto(t, body, fr1)
  /\ UNCHANGED <<regVars, subVars, enabled, active, logFuncName, cfgVars,
                 logVars, mutex, today, clock, exited>>

\* the callback has returned to the loop of setLogLevel
alertReturn(t) ==
  /\ pc[t] = "alertReturn"
  /\ LET fr == frame[t]
         sv == fr.saved
     IN  Goto(t, "alerts",
              [fr EXCEPT !.f = sv.f, !.name = sv.name, !.L = sv.L,
                         !.level = sv.level, !.T = sv.T,
                         !.passed = sv.passed, !.message = sv.message,
                         !.stack = IF @ # <<>> /\ Head(@) = "alertReturn"
                                     THEN Tail(@) ELSE @])
  /\ UNCHANGED <<regVars, subVars, enabled, active, logFuncName, cfgVars,
                 logVars, mutex, today, clock, exited>>

(***************************************************************************)
(* SpecCallback: thread t1 sets levels while callbacks are subscribed that *)
(* call the package; thread t2 subscribes, unsubscribes, reads the levels  *)
(* and emits.  Every thread that can take a step of its call eventually    *)
(* takes one.                                                              *)
(***************************************************************************)
StepCallback(t) ==
  \/ Done(t)
  \/ MessageEx(t)
  \/ logger(t)
  \/ loggerLocked(t)
  \/ setLogLevel(t)
  \/ \E id \in 1..MaxSubscribers, body \in CallbackBodies :
       alertCall(t, id, body)
  \/ alertReturn(t)
  \/ storeLevel(t)
  \/ SetLogLevelsLoop(t)
  \/ unlock(t)
  \/ AddAlertFuncLocked(t)
  \/ DelAlertFuncLocked(t)
  \/ CurrentLogLevelOfAllLocked(t)

NextCallback ==
  \/ \E t \in Threads : StepCallback(t)
  \/ \E l \in ThresholdNameInputs :
       clock < MaxEmit /\ SetLogLevel("t1", StdFacilityName, l, FuncNameModeNone)
  \/ \E l \in ThresholdNameInputs :
       clock < MaxEmit
         /\ SetLogLevels("t1", l, [n \in {} |-> ""], FuncNameModeNone)
  \/ clock < MaxEmit /\ CallAddAlertFunc("t2")
  \/ \E id \in 1..MaxSubscribers : clock < MaxEmit /\ CallDelAlertFunc("t2", id)
  \/ clock < MaxEmit /\ CallCurrentLogLevelOfAll("t2")
  \/ clock < MaxEmit /\ Message("t2", StdFacilityName, ERR)

SpecCallback ==
  /\ Init
  /\ [][NextCallback]_vars
  /\ \A t \in Threads : SF_vars(StepCallback(t))

\* thread t is inside SetLogLevel or SetLogLevels
InLevelChange(t) ==
  /\ frame[t].op \in {"SetLogLevel", "SetLogLevels"}
  /\ pc[t] \notin {"idle", "done"}

\* C28: every call of SetLogLevel and of SetLogLevels returns, also when a
\* subscriber emits a message, reads the levels with CurrentLogLevelOfAll
\* or calls AddAlertFunc or DelAlertFunc from its callback.
C28_LevelChangeReturns ==
  \A t \in Threads : InLevelChange(t) ~> ~InLevelChange(t)

(***************************************************************************)
(* SpecShutdown: thread t1 runs the exit hook while thread t2 emits on the *)
(* standard facility, with and without a file destination, and days pass.  *)
(***************************************************************************)
StepShutdown(t) ==
  \/ MessageEx(t)
  \/ logger(t)
  \/ loggerBegin(t)
  \/ loggerPersist(t)
  \/ openLogFileRest(t)
  \/ loggerWrite(t)
  \/ loggerRecord(t)
  \/ exitDumpLines(t)
  \/ exitInactive(t)
  \/ writerFlushCheck(t)
  \/ writerFlushLocked(t)
  \/ exitClose(t)

NextShutdown ==
  \/ \E t \in Threads : StepShutdown(t)
  \/ Done("t2")
  \/ clock < MaxEmit /\ Message("t2", StdFacilityName, INFO)
  \/ \E d \in DirectoryInputs, b \in BufSizeInputs :
       clock < MaxEmit /\ SetFile("t2", d, b)
  \/ clock < MaxEmit /\ exit("t1")
  \/ NextDay

SpecShutdown == Init /\ [][NextShutdown]_vars

\* exit has copied the pre-open buffer to the crash-dump file
ShutdownCopied ==
  /\ frame["t1"].op = "exit"
  /\ pc["t1"] \in {"exitInactive", "writerFlush", "writerFlushLocked",
                   "exitClose", "done", "panic"}
  /\ dump.exists

\* exit has closed the file and returned
ShutdownClosed ==
  /\ frame["t1"].op = "exit"
  /\ pc["t1"] = "done"

\* C29: once the shutdown has closed the file no emit writes to the log
\* file or to the buffered writer, and once it has copied the pre-open
\* buffer to the crash-dump file no line is appended to that buffer.
C29_NoWriteAfterShutdown ==
  [][/\ ShutdownClosed => UNCHANGED <<files, fileWriter, file>>
     /\ ShutdownCopied => beforeFileBuf' = beforeFileBuf]_vars

\* the first half of C29 alone
C29_NoWriteAfterClose ==
  [][ShutdownClosed => UNCHANGED <<files, fileWriter, file>>]_vars

\* the second half of C29 alone
C29_NoAppendAfterCopy ==
  [][ShutdownCopied => beforeFileBuf' = beforeFileBuf]_vars

\* the step appends line as the newest line of the ring buffer
AppendsLine(line) == lastBuf' = appendLast(lastBuf, line)

\* with logging enabled, the step of setLogLevel that stores a new level
\* appends the INFO line of the change, and the step that rejects a level
\* name appends the WARNING line, whatever the level of the facility before
\* and after; the thread holds the mutex before and after and does not lock
C30_SelfLogStep ==
  \A t \in Threads :
    LET fr == frame[t]
        name == objs[fr.f].name
    IN  /\ (pc[t] = "alerts" /\ pc'[t] # "alerts" /\ enabled) =>
             /\ lastBuf' # <<>>
             /\ LET line == lastBuf'[Len(lastBuf')]
                IN  /\ AppendsLine(line)
                    /\ line.lvl = LevelName(INFO)
                    /\ line.fac = FacilityTag(name)
                    /\ line.msg = LevelIsMsg(fr.newLevel)
             /\ objs'[fr.f].level = fr.newLevel
             /\ mutex = t /\ mutex' = t
        /\ (pc[t] = "setLogLevel" /\ pc'[t] # "setLogLevel" /\ frame'[t].err
              /\ enabled) =>
             /\ lastBuf' # <<>>
             /\ LET line == lastBuf'[Len(lastBuf')]
                IN  /\ AppendsLine(line)
                    /\ line.lvl = LevelName(WARNING)
                    /\ line.fac = FacilityTag(name)
                    /\ line.msg = InvalidLevelMsg(fr.levelName, objs[fr.f].level)
             /\ objs' = objs
             /\ mutex = t /\ mutex' = t

\* C30: the lines a level change writes about itself are not filtered by
\* the level of the facility: the INFO line of a change and the WARNING
\* line of a rejected level name are appended to the ring buffer by
\* logger(false, ...), under the mutex the caller holds, whatever the level
\* was and becomes.
C30_SelfLogUnfiltered == [][C30_SelfLogStep]_vars

\* the standard facility has been set to ERR, and the INFO line saying so
\* is the newest line of the ring buffer
C30_Witness ==
  /\ pc["t1"] = "unlock"
  /\ frame["t1"].f = stdFacility
  /\ ~frame["t1"].err
  /\ objs[stdFacility].level = ERR
  /\ frame["t1"].oldLevel # ERR
  /\ lastBuf # <<>>
  /\ lastBuf[Len(lastBuf)].lvl = LevelName(INFO)
  /\ lastBuf[Len(lastBuf)].msg = LevelIsMsg(ERR)

\* a level name was rejected on a facility at ERR, and the WARNING line
\* saying so is the newest line of the ring buffer
C30_WitnessWarning ==
  /\ pc["t1"] = "unlock"
  /\ frame["t1"].err
  /\ objs[frame["t1"].f].level = ERR
  /\ lastBuf # <<>>
  /\ lastBuf[Len(lastBuf)].lvl = LevelName(WARNING)

====
